---- MODULE Spec2Model ----
(***************************************************************************)
(* Verification model of lbtools (copy-number estimation pipeline).        *)
(*                                                                         *)
(*  Spec / FairSpec : the coverage collector's scheduler                   *)
(*                    (src/src/controller.rs, src/src/process.rs)          *)
(*  ReaderSpec      : the read loop, ReadFilter and RawCounter             *)
(*                    (src/src/reader.rs)                                  *)
(*  GcSpec          : GcBuilder (src/src/gc.rs)                            *)
(***************************************************************************)
EXTENDS Integers, Sequences, FiniteSets, TLC

(***************************************************************************)
(* Bounds of the model.                                                    *)
(***************************************************************************)
MaxTasks == 2        \* n_tasks ranges over 1..MaxTasks, n_readers over 1..n_tasks
MaxSamples == 2      \* the sample list has 1..MaxSamples entries
MaxCtgs == 2         \* the contig hash has 1..MaxCtgs entries

(***************************************************************************)
(* Program constants.                                                      *)
(***************************************************************************)
InboxCap == 1        \* bounded(1): a task's inbox
CtrlCapFactor == 8   \* bounded(nt * 8): the controller's inbox

VARIABLES
    \* ---- scheduler: run configuration (read only after Init)
    cfg,             \* [n_tasks, n_readers, ns, nc, indexed, fault]
    \* ---- scheduler: controller locals (controller.rs 259-281)
    track,           \* Tracker: [r |-> n_read_jobs_pending, n |-> n_normalize_jobs_pending]
    sample_vec,      \* per sample InputFile: [indexed, ctg_iter, finished]
    sample_idx,      \* round-robin cursor of get_new_read_job (0-based)
    sample_data,     \* per sample Option<RawCounts>: [some, ctgs]
    pending_norm,    \* Vec<(usize, RawCounts)>
    pending_output,  \* Vec<(usize, NormCov)>
    ongoing_output,  \* Option<OnGoingOutput>: [some, sample, norm_cov]
    ctrl_pc,         \* "run" | "done" | "failed" | "panicked"
    \* ---- scheduler: channels
    ctrl_q,          \* the controller's inbox (bounded(nt * 8)), FIFO
    inbox,           \* per task: its bounded(1) inbox, a sequence of Option<Job>
    \* ---- scheduler: process tasks (process.rs 16-79)
    pc,              \* per task: "start" | "run" | "done" | "failed"
    w_sample,        \* per task: sample_idx (0 = None)
    ret,             \* result of process_samples: "none" | "Ok" | "Err"
    \* ---- scheduler: history of what the controller sent and merged
    n_read_sent,     \* [sample][ctg] number of ReadData jobs sent (ctg 0 = ReadData(None))
    n_norm_sent,     \* [sample] number of NormalizeSample jobs sent
    n_out_sent,      \* number of OutputSampleCtg jobs sent
    merged,          \* [sample] contigs whose RawCounts the controller has merged
    \* ---- reader: read_ctg_coverage_data (reader.rs 190-221)
    r_cfg,           \* what the loop reads of Config, and the contig's length
    prev_pos,        \* Option<(tid, pos, Option<mpos>)> of the previous accepted record
    cov,             \* RawCounter.cov
    r_pc,            \* "idle" | "reading" | "done" | "panicked"
    n_recs,          \* number of records read
    rec,             \* the record last read
    passed,          \* pass_filter's answer for it
    hits,            \* the positions add_raw_counts incremented a bin for
    \* ---- GC content: GcBuilder (gc.rs 24-75)
    gc_block_size,   \* GcBuilder.block_size
    gc_data,         \* GcBuilder.data: Vec<Option<u32>>
    gc_counts,       \* GcBuilder.counts: [other, AT, GC]
    current_pos,     \* GcBuilder.current_pos
    gc_pc,           \* "idle" | "building" | "built"
    gc_blocks,       \* the counts each entry of data was made from
    \* ---- GC content: GcData::from_reference (gc.rs 118-297)
    ref_cfg,         \* [nt, indexed, targets, present]
    ref_pc,          \* "idle" | "send" | "join" | "single" | "done"
    ref_q,           \* the unbounded channel of contigs to the reader threads
    ref_sent,        \* contigs sent so far
    rdr_pc,          \* per reader thread: "start" | "run" | "ok" | "err"
    rdr_chash,       \* per reader thread: contigs in its chash
    ref_line,        \* single-threaded read: contigs of the file gone by
    ref_gcb,         \* single-threaded read: Option<GcBuilder> (0 = None)
    ref_chash,       \* GcData.chash: contigs with GC data
    ref_result,      \* "none" | "Ok" | "Err" | "Panic"
    norm_rc,         \* contigs of the RawCounts collect_bin_data was given
    norm_result,     \* "none" | "ok" | "panic"
    \* ---- region test: parse_ranges (lb_region_test/src/region.rs 39-92)
    rg_list,         \* the ranges the text was written from
    rg_in,           \* the text given to parse_ranges, a sequence of characters
    rg_pieces,       \* the pieces of s.split(',') not yet looked at
    rg_v,            \* v: the ranges parsed so far
    rg_pc,           \* "idle" | "parse" | "done"
    rg_out,          \* the result: [ok, v]
    \* ---- utils: fdr_n (utils/src/lib.rs 247-264)
    fdr_p,           \* p: the p-values, in units of 1/PUnit
    fdr_v,           \* v: the (index, p) pairs, sorted by p
    fdr_i,           \* the loop's i + 1: the rank being handled
    fdr_min,         \* min_p, a fraction [num, den] in units of 1/PUnit
    fdr_q,           \* q
    fdr_pc,          \* "idle" | "sort" | "loop" | "done"
    \* ---- utils: robust_sd (utils/src/lib.rs 103-115)
    sd_iqr,          \* iqr
    sd_n,            \* n
    sd_pc,           \* "idle" | "call" | "done"
    sd_out,          \* the Option returned: [some, num, z], the value num / z
    \* ---- lb_region_test: process_data (lb_region_test/src/process.rs 135-220)
    pd_ctrl,         \* region -> number of control samples with data for it
    pd_test,         \* region -> has the test sample data for it
    pd_r,            \* index of the region the first loop is at
    pd_reg_data,     \* reg_data: sequence of [region, n, q1, q2, q3]
    pd_warned,       \* regions a warning was logged for
    pd_rows,         \* regions of the rows written
    pd_pc,           \* "idle" | "controls" | "tests" | "done" | "panic"
    \* ---- lb_norm: process_samples, one contig (lb_norm/src/process.rs 12-66)
    nm_cfg,          \* [control, output, data]: the samples and their files
    nm_med,          \* med: bin -> [q2, iqr], or NoMed for a bin not in it
    nm_low,          \* low
    nm_high,         \* high
    nm_s,            \* index of the sample the output loop is at
    nm_rows,         \* rows written: set of [sample, bin, y]
    nm_pc,           \* "idle" | "median" | "output" | "done" | "panic"
    \* ---- GC smoother: smooth (src/normalize.rs 173-220)
    sm_bc,           \* bc: GC class -> number of observations
    sm_obs,          \* obs: sequence of [n, ix]
    sm_left,         \* left
    sm_right,        \* right
    sm_i,            \* i
    sm_fit,          \* fit: sequence of [x], the centres of the fits
    sm_pred,         \* pred: GC class -> centre of the fit used, or None
    sm_pc,           \* "idle" | "start" | "fit" | "done" | "panic"
    \* ---- one worker and its input handles: process_task (src/process.rs 16-77)
    pt_sample_idx,   \* sample_idx: None or a sample
    pt_hts,          \* hts: None or the sample whose file the handle is on
    pt_h,            \* h, the handle open_input returned: None or a sample
    pt_open,         \* the samples whose file is open in this worker
    pt_job,          \* the job at hand
    pt_jobs,         \* number of jobs received
    pt_opens,        \* number of calls of open_input
    pt_pc,           \* "idle" | "recv" | "open" | "assign" | "read" | "exit"
    \* ---- lb_region_test: read_region_data (lb_region_test/src/io.rs 9-64)
    rr_file,         \* the track file: sequence of [x, z], x increasing
    rr_ranges,       \* reg.ranges(): sorted sequence of <<a, b>>
    rr_line,         \* line: number of lines read
    rr_v,            \* v
    rr_out,          \* the result: [some, s, n], the value s / n
    rr_pc,           \* "idle" | "read" | "sum" | "done" | "panic"
    \* ---- lb_predict_cn: contig_hash_from_file (lb_predict_cn/src/contig.rs 55-98)
    ch_file,         \* the contig file: sequence of lines, a line a sequence of characters
    ch_line,         \* line: number of lines read
    ch_hash,         \* ctg_hash: set of [name, flag], one entry per name
    ch_pc            \* "idle" | "read" | "done" | "error"

sched_vars == <<cfg, track, sample_vec, sample_idx, sample_data, pending_norm,
                pending_output, ongoing_output, ctrl_pc, ctrl_q, inbox, pc, w_sample,
                ret, n_read_sent, n_norm_sent, n_out_sent,
                merged>>

reader_vars == <<r_cfg, prev_pos, cov, r_pc, n_recs, rec, passed, hits>>

gc_vars == <<gc_block_size, gc_data, gc_counts, current_pos, gc_pc, gc_blocks>>

ref_vars == <<ref_cfg, ref_pc, ref_q, ref_sent, rdr_pc, rdr_chash, ref_line, ref_gcb,
              ref_chash, ref_result, norm_rc, norm_result>>

rg_vars == <<rg_list, rg_in, rg_pieces, rg_v, rg_pc, rg_out>>

fdr_vars == <<fdr_p, fdr_v, fdr_i, fdr_min, fdr_q, fdr_pc>>

sd_vars == <<sd_iqr, sd_n, sd_pc, sd_out>>

pd_vars == <<pd_ctrl, pd_test, pd_r, pd_reg_data, pd_warned, pd_rows, pd_pc>>

nm_vars == <<nm_cfg, nm_med, nm_low, nm_high, nm_s, nm_rows, nm_pc>>

sm_vars == <<sm_bc, sm_obs, sm_left, sm_right, sm_i, sm_fit, sm_pred, sm_pc>>

pt_vars == <<pt_sample_idx, pt_hts, pt_h, pt_open, pt_job, pt_jobs, pt_opens, pt_pc>>

rr_vars == <<rr_file, rr_ranges, rr_line, rr_v, rr_out, rr_pc>>

ch_vars == <<ch_file, ch_line, ch_hash, ch_pc>>

later_vars ==
    <<ref_vars, rg_vars, fdr_vars, sd_vars, pd_vars, nm_vars, sm_vars, pt_vars,
      rr_vars, ch_vars>>

vars == <<sched_vars, reader_vars, gc_vars, later_vars>>

(***************************************************************************)
(* Scheduler: configuration and messages.                                  *)
(***************************************************************************)
Tasks == 1..cfg.n_tasks
Samples == 1..cfg.ns
Ctgs == 1..cfg.nc

\* What can go wrong with one input: nothing, the file cannot be opened,
\* its records cannot be read, or one target contig is not in its header.
NoFault == [kind |-> "none", s |-> 0, c |-> 0]
Faults(ns, nc) ==
    {NoFault}
    \cup {[kind |-> k, s |-> s, c |-> 0] : k \in {"unopenable", "corrupt"}, s \in 1..ns}
    \cup {[kind |-> "absent", s |-> s, c |-> c] : s \in 1..ns, c \in 1..nc}

Configs ==
    UNION {UNION {
        {[n_tasks |-> t, n_readers |-> r, ns |-> ns, nc |-> nc, indexed |-> ix, fault |-> f] :
            t \in 1..MaxTasks, r \in 1..MaxTasks,
            ix \in [1..ns -> BOOLEAN], f \in Faults(ns, nc)}
        : nc \in 1..MaxCtgs} : ns \in 1..MaxSamples}

\* A Job. type "ReadData": ctg = 0 stands for ReadData(None); data is the key
\* set of the RawCounts / the one contig of the Coverage a job carries.
MkJob(type, sample, ctg, data) ==
    [type |-> type, sample |-> sample, ctg |-> ctg, data |-> data]

\* Option<Job>::None
NoJob == MkJob("None", 0, 0, {})

\* Completed
MkCompleted(type, sample, data) == [type |-> type, sample |-> sample, data |-> data]

CompletedNone == MkCompleted("None", 0, {})

MkJobRequest(prev, sidx, task) ==
    [prev_results |-> prev, sample_idx |-> sidx, task_idx |-> task]

NoData == [some |-> FALSE, ctgs |-> {}]

NoOutput == [some |-> FALSE, sample |-> 0, norm_cov |-> {}]

(***************************************************************************)
(* Scheduler: what a task computes.                                        *)
(***************************************************************************)
\* Contigs of the target set found in the header of sample s's file.
PresentCtgs(s) ==
    IF cfg.fault.kind = "absent" /\ cfg.fault.s = s THEN Ctgs \ {cfg.fault.c} ELSE Ctgs

\* Keys of the RawCounts returned for ReadData(ctg) on sample s.
read_coverage_data(s, ctg) ==
    IF ctg # 0
        THEN (IF ctg \in PresentCtgs(s) THEN {ctg} ELSE {})
        ELSE PresentCtgs(s)

\* Reading sample s in a task returns Err.
ReadFails(s) == cfg.fault.kind = "corrupt" /\ cfg.fault.s = s

\* Keys of the NormCov returned by normalize_sample: the map is created
\* empty and returned as created.
normalize_sample(rc) == {}

(***************************************************************************)
(* Scheduler: Tracker.                                                     *)
(***************************************************************************)
\* Mutant of update_at_send: a NormalizeSample job sent is not counted
update_at_send_no_norm(tr, job) ==
    CASE job.type = "ReadData" -> [tr EXCEPT !.r = @ + 1]
      [] OTHER -> tr

\* Tracker::update_at_send
update_at_send(tr, job) ==
    CASE job.type = "ReadData" -> [tr EXCEPT !.r = @ + 1]
      [] job.type = "NormalizeSample" -> [tr EXCEPT !.n = @ + 1]
      [] OTHER -> tr

\* The two assert!s of update_at_recv
recv_assert_ok(tr, jr) ==
    CASE jr.prev_results.type = "RawCounts" -> tr.r > 0
      [] jr.prev_results.type = "NormalizedCounts" -> tr.n > 0
      [] OTHER -> TRUE

\* Mutant of update_at_recv: a returned RawCounts is not counted
update_at_recv_no_read(tr, jr) ==
    CASE jr.prev_results.type = "NormalizedCounts" -> [tr EXCEPT !.n = @ - 1]
      [] OTHER -> tr

update_at_recv(tr, jr) ==
    CASE jr.prev_results.type = "RawCounts" -> [tr EXCEPT !.r = @ - 1]
      [] jr.prev_results.type = "NormalizedCounts" -> [tr EXCEPT !.n = @ - 1]
      [] OTHER -> tr

pending(tr) == tr.r > 0 \/ tr.n > 0

(***************************************************************************)
(* Scheduler: OnGoingOutput.                                               *)
(***************************************************************************)
MaxOf(S) == CHOOSE x \in S : \A y \in S : y <= x

\* OnGoingOutput::new: the NormCov is drained into a Vec
OnGoingOutput_new(i, nc) == [some |-> TRUE, sample |-> i, norm_cov |-> nc]

\* OnGoingOutput::next_job: pop one (contig, coverage); result [job, oo]
OnGoingOutput_next_job(oo) ==
    IF oo.norm_cov = {}
        THEN [job |-> NoJob, oo |-> oo]
        ELSE LET c == MaxOf(oo.norm_cov)
             IN [job |-> MkJob("OutputSampleCtg", oo.sample, c, {c}),
                 oo |-> [oo EXCEPT !.norm_cov = @ \ {c}]]

(***************************************************************************)
(* Scheduler: InputFile.                                                   *)
(***************************************************************************)
\* InputFile::new
InputFile_new == [indexed |-> "None", ctg_iter |-> 0, finished |-> FALSE]

\* Hts::open and the format test of check_finished fail
ProbeFails(s) == cfg.fault.kind = "unopenable" /\ cfg.fault.s = s

\* InputFile::check_finished on sample s: [err, finished, file]
check_finished(f, s) ==
    IF f.indexed = "None"
        THEN IF ProbeFails(s)
                THEN [err |-> TRUE, finished |-> f.finished, file |-> f]
                ELSE [err |-> FALSE, finished |-> f.finished,
                      file |-> [f EXCEPT !.indexed = IF cfg.indexed[s] THEN "true" ELSE "false"]]
        ELSE [err |-> FALSE, finished |-> f.finished, file |-> f]

\* Mutant of next_job: the whole-file read does not mark the input finished
next_job_unfinished(f, s) ==
    IF f.finished
        THEN [job |-> NoJob, file |-> f]
        ELSE IF f.indexed = "true"
            THEN IF f.ctg_iter < cfg.nc
                    THEN [job |-> MkJob("ReadData", s, f.ctg_iter + 1, {}),
                          file |-> [f EXCEPT !.ctg_iter = @ + 1]]
                    ELSE [job |-> NoJob, file |-> [f EXCEPT !.finished = TRUE]]
            ELSE [job |-> MkJob("ReadData", s, 0, {}), file |-> f]

\* InputFile::next_job on sample s: [job, file]; ctg_iter counts the keys
\* the iterator has yielded, the next key being ctg_iter + 1.
next_job(f, s) ==
    IF f.finished
        THEN [job |-> NoJob, file |-> f]
        ELSE IF f.indexed = "true"
            THEN IF f.ctg_iter < cfg.nc
                    THEN [job |-> MkJob("ReadData", s, f.ctg_iter + 1, {}),
                          file |-> [f EXCEPT !.ctg_iter = @ + 1]]
                    ELSE [job |-> NoJob, file |-> [f EXCEPT !.finished = TRUE]]
            ELSE [job |-> MkJob("ReadData", s, 0, {}),
                  file |-> [f EXCEPT !.finished = TRUE]]

\* The selection loop of get_new_read_job: l probes at most, starting at idx
\* (0-based); [err, idx, sv]
RECURSIVE find_sample(_, _, _)
find_sample(sv, idx, k) ==
    IF k = 0
        THEN [err |-> FALSE, idx |-> idx, sv |-> sv]
        ELSE LET cf == check_finished(sv[idx + 1], idx + 1)
                 sv1 == [sv EXCEPT ![idx + 1] = cf.file]
             IN IF cf.err THEN [err |-> TRUE, idx |-> idx, sv |-> sv]
                ELSE IF ~cf.finished THEN [err |-> FALSE, idx |-> idx, sv |-> sv1]
                ELSE find_sample(sv1, (idx + 1) % cfg.ns, k - 1)

\* get_new_read_job: [err, job, idx, sv]
get_new_read_job(sv, idx) ==
    LET l == cfg.ns
        sel == find_sample(sv, idx, l)
        nj == next_job(sel.sv[sel.idx + 1], sel.idx + 1)
    IN IF sel.err
          THEN [err |-> TRUE, job |-> NoJob, idx |-> sel.idx, sv |-> sel.sv]
          ELSE [err |-> FALSE, job |-> nj.job, idx |-> (sel.idx + 1) % l,
                sv |-> [sel.sv EXCEPT ![sel.idx + 1] = nj.file]]

(***************************************************************************)
(* Scheduler: the controller's handling of one JobRequest.                 *)
(***************************************************************************)
\* Mutant of all_read: a sample counts as read once any contig has arrived
all_read_any(cts) == Cardinality(cts) >= 1

\* All contigs of a sample have been read (controller.rs 302)
all_read(cts) == Cardinality(cts) = cfg.nc

\* Store data from previous results: [sd, pn, po]
store_results(jr, sd, pn, po) ==
    LET prev == jr.prev_results
        i == prev.sample
    IN CASE prev.type = "RawCounts" ->
              LET cts == IF sd[i].some THEN sd[i].ctgs \cup prev.data ELSE prev.data
              IN IF all_read(cts)
                    THEN [sd |-> [sd EXCEPT ![i] = NoData],
                          pn |-> Append(pn, [sample |-> i, cts |-> cts]), po |-> po]
                    ELSE [sd |-> [sd EXCEPT ![i] = [some |-> TRUE, ctgs |-> cts]],
                          pn |-> pn, po |-> po]
         [] prev.type = "NormalizedCounts" ->
              [sd |-> sd, pn |-> pn, po |-> Append(po, [sample |-> i, nc |-> prev.data])]
         [] OTHER -> [sd |-> sd, pn |-> pn, po |-> po]

\* Mutant of new_reads_allowed: <= for <
new_reads_allowed_le(tr) == tr.r <= cfg.n_readers

\* See if we can add new read jobs (controller.rs 313)
new_reads_allowed(tr) == tr.r < cfg.n_readers

\* Last element and the rest of a Vec (Vec::pop)
Last(v) == v[Len(v)]

Front(v) == SubSeq(v, 1, Len(v) - 1)

\* Mutant of select_output: a pending sample is started although the
\* ongoing output still has contigs
select_output_eager(oo, po) ==
    IF po # <<>>
        THEN LET b == OnGoingOutput_next_job(OnGoingOutput_new(Last(po).sample, Last(po).nc))
             IN [job |-> b.job, oo |-> b.oo, po |-> Front(po)]
        ELSE LET a == IF oo.some THEN OnGoingOutput_next_job(oo) ELSE [job |-> NoJob, oo |-> oo]
             IN [job |-> a.job, oo |-> IF a.job # NoJob THEN a.oo ELSE NoOutput, po |-> po]

\* An output job, from the ongoing output or from a newly started one
\* (controller.rs 323-331): [job, oo, po]
select_output(oo, po) ==
    LET a == IF oo.some THEN OnGoingOutput_next_job(oo) ELSE [job |-> NoJob, oo |-> oo]
    IN IF a.job # NoJob
          THEN [job |-> a.job, oo |-> a.oo, po |-> po]
          ELSE IF po = <<>>
              THEN [job |-> NoJob, oo |-> NoOutput, po |-> po]
              ELSE LET b == OnGoingOutput_next_job(OnGoingOutput_new(Last(po).sample, Last(po).nc))
                   IN [job |-> b.job, oo |-> b.oo, po |-> Front(po)]

\* A normalization job if one is waiting (controller.rs 333-338): [job, pn]
select_norm(pn) ==
    IF pn = <<>>
        THEN [job |-> NoJob, pn |-> pn]
        ELSE [job |-> MkJob("NormalizeSample", Last(pn).sample, 0, Last(pn).cts),
              pn |-> Front(pn)]

\* Mutant of wait_or_none: the two answers swapped
wait_or_none_swapped(tr) == IF pending(tr) THEN NoJob ELSE MkJob("Wait", 0, 0, {})

\* No read, normalization or output job: Wait while jobs are out, else None
\* (controller.rs 356-365)
wait_or_none(tr) == IF pending(tr) THEN MkJob("Wait", 0, 0, {}) ELSE NoJob

\* The whole choice of a job for request jr with tracker tr (already updated
\* at receive), controller.rs 312-366: [err, job, sv, idx, oo, po, pn].
\* Each source is tried only when the ones before it gave no job.
choose_job(jr, tr, sv, idx, oo, po, pn) ==
    LET new_reads == new_reads_allowed(tr)
        try_own == new_reads /\ jr.sample_idx # 0
        own == next_job(sv[jr.sample_idx], jr.sample_idx)
        sv1 == IF try_own THEN [sv EXCEPT ![jr.sample_idx] = own.file] ELSE sv
        out == select_output(oo, po)
        nrm == select_norm(pn)
        rd == get_new_read_job(sv1, idx)
    IN IF try_own /\ own.job # NoJob
          THEN [err |-> FALSE, job |-> own.job, sv |-> sv1, idx |-> idx,
                oo |-> oo, po |-> po, pn |-> pn]
       ELSE IF out.job # NoJob
          THEN [err |-> FALSE, job |-> out.job, sv |-> sv1, idx |-> idx,
                oo |-> out.oo, po |-> out.po, pn |-> pn]
       ELSE IF nrm.job # NoJob
          THEN [err |-> FALSE, job |-> nrm.job, sv |-> sv1, idx |-> idx,
                oo |-> out.oo, po |-> out.po, pn |-> nrm.pn]
       ELSE IF new_reads
          THEN [err |-> rd.err,
                job |-> IF rd.job # NoJob THEN rd.job ELSE wait_or_none(tr),
                sv |-> rd.sv, idx |-> rd.idx,
                oo |-> out.oo, po |-> out.po, pn |-> nrm.pn]
       ELSE [err |-> FALSE, job |-> wait_or_none(tr), sv |-> sv1, idx |-> idx,
             oo |-> out.oo, po |-> out.po, pn |-> nrm.pn]

\* ReadData jobs sent whose RawCounts the controller has not received:
\* those in a task's inbox and those answered in the controller's inbox.
IsReadJob(j) == j.type = "ReadData"

IsRawCounts(jr) == jr.prev_results.type = "RawCounts"

ReadsInFlight ==
    Cardinality({w \in Tasks : \E k \in 1..Len(inbox[w]) : IsReadJob(inbox[w][k])})
    + Cardinality({k \in 1..Len(ctrl_q) : IsRawCounts(ctrl_q[k])})

\* What the controller does with request jr, tr being the tracker updated at
\* receive, st the stores after the results are kept and ch the chosen job.
controller_reply(jr, tr, st, ch) ==
    /\ sample_data' = st.sd
    /\ sample_vec' = ch.sv
    /\ sample_idx' = ch.idx
    /\ ongoing_output' = ch.oo
    /\ pending_output' = ch.po
    /\ pending_norm' = ch.pn
    /\ IF ch.err
          THEN /\ ctrl_pc' = "failed"
               /\ track' = tr
               /\ UNCHANGED <<inbox, n_read_sent, n_norm_sent, n_out_sent>>
          ELSE /\ ctrl_pc' = "run"
               /\ track' = update_at_send(tr, ch.job)
               /\ inbox' = [inbox EXCEPT ![jr.task_idx] = Append(@, ch.job)]
               /\ n_read_sent' =
                    IF ch.job.type = "ReadData"
                       THEN [n_read_sent EXCEPT ![ch.job.sample][ch.job.ctg] = @ + 1]
                       ELSE n_read_sent
               /\ n_norm_sent' =
                    IF ch.job.type = "NormalizeSample"
                       THEN [n_norm_sent EXCEPT ![ch.job.sample] = @ + 1]
                       ELSE n_norm_sent
               /\ n_out_sent' = n_out_sent + (IF ch.job.type = "OutputSampleCtg" THEN 1 ELSE 0)

\* controller.rs 283-380, one iteration of the main loop
ControllerStep ==
    /\ ctrl_pc = "run"
    /\ ctrl_q # <<>>
    /\ Len(inbox[Head(ctrl_q).task_idx]) < InboxCap
    /\ ctrl_q' = Tail(ctrl_q)
    /\ \E jr \in {Head(ctrl_q)} :
          /\ merged' = IF IsRawCounts(jr)
                          THEN [merged EXCEPT ![jr.prev_results.sample] = @ \cup jr.prev_results.data]
                          ELSE merged
          /\ IF ~recv_assert_ok(track, jr)
                THEN /\ ctrl_pc' = "panicked"
                     /\ UNCHANGED <<track, sample_vec, sample_idx, sample_data, pending_norm,
                                    pending_output, ongoing_output, inbox, n_read_sent,
                                    n_norm_sent, n_out_sent>>
                ELSE \E tr \in {update_at_recv(track, jr)},
                        st \in {store_results(jr, sample_data, pending_norm, pending_output)} :
                        \E ch \in {choose_job(jr, tr, sample_vec, sample_idx,
                                              ongoing_output, st.po, st.pn)} :
                            controller_reply(jr, tr, st, ch)
    /\ UNCHANGED <<cfg, pc, w_sample, ret>>
    /\ UNCHANGED <<reader_vars, gc_vars, later_vars>>

\* The controller's receiver is disconnected: every task has dropped its
\* sender and the inbox is drained (controller.rs 283, 381-382)
ControllerExit ==
    /\ ctrl_pc = "run"
    /\ ctrl_q = <<>>
    /\ \A w \in Tasks : pc[w] \in {"done", "failed"}
    /\ ctrl_pc' = "done"
    /\ UNCHANGED <<cfg, track, sample_vec, sample_idx, sample_data, pending_norm,
                   pending_output, ongoing_output, ctrl_q, inbox, pc, w_sample, ret,
                   n_read_sent, n_norm_sent, n_out_sent,
                   merged>>
    /\ UNCHANGED <<reader_vars, gc_vars, later_vars>>

(***************************************************************************)
(* Scheduler: process tasks.                                               *)
(***************************************************************************)
\* Mutant of send_request: the request is sent twice
send_request_twice(w, res, sidx) ==
    IF ctrl_pc = "run"
        THEN /\ Len(ctrl_q) + 1 < cfg.n_tasks * CtrlCapFactor
             /\ ctrl_q' = ctrl_q \o <<MkJobRequest(res, sidx, w), MkJobRequest(res, sidx, w)>>
             /\ pc' = [pc EXCEPT ![w] = "run"]
        ELSE /\ ctrl_q' = ctrl_q
             /\ pc' = [pc EXCEPT ![w] = "failed"]

\* snd.send(JobRequest {..})?: blocks while the controller's inbox is full,
\* fails when the controller has dropped its receiver.
send_request(w, res, sidx) ==
    IF ctrl_pc = "run"
        THEN /\ Len(ctrl_q) < cfg.n_tasks * CtrlCapFactor
             /\ ctrl_q' = Append(ctrl_q, MkJobRequest(res, sidx, w))
             /\ pc' = [pc EXCEPT ![w] = "run"]
        ELSE /\ ctrl_q' = ctrl_q
             /\ pc' = [pc EXCEPT ![w] = "failed"]

ctrl_unchanged ==
    /\ UNCHANGED <<cfg, track, sample_vec, sample_idx, sample_data, pending_norm,
                   pending_output, ongoing_output, ctrl_pc, ret, n_read_sent, n_norm_sent,
                   n_out_sent, merged>>
    /\ UNCHANGED <<reader_vars, gc_vars, later_vars>>

\* process.rs 24-30: the first request
TaskStart(w) ==
    /\ w \in Tasks
    /\ pc[w] = "start"
    /\ send_request(w, CompletedNone, 0)
    /\ UNCHANGED <<inbox, w_sample>>
    /\ ctrl_unchanged

\* process.rs 37-54: a ReadData job
TaskReadData(w) ==
    /\ w \in Tasks
    /\ pc[w] = "run"
    /\ inbox[w] # <<>>
    /\ Head(inbox[w]).type = "ReadData"
    /\ LET job == Head(inbox[w])
           i == job.sample
       IN /\ inbox' = [inbox EXCEPT ![w] = Tail(@)]
          /\ IF ReadFails(i)
                THEN /\ pc' = [pc EXCEPT ![w] = "failed"]
                     /\ UNCHANGED <<ctrl_q, w_sample>>
                ELSE /\ w_sample' = [w_sample EXCEPT ![w] = i]
                     /\ send_request(w, MkCompleted("RawCounts", i, read_coverage_data(i, job.ctg)), i)
    /\ ctrl_unchanged

\* process.rs 55-63: a NormalizeSample job
TaskNormalize(w) ==
    /\ w \in Tasks
    /\ pc[w] = "run"
    /\ inbox[w] # <<>>
    /\ Head(inbox[w]).type = "NormalizeSample"
    /\ LET job == Head(inbox[w])
       IN /\ inbox' = [inbox EXCEPT ![w] = Tail(@)]
          /\ send_request(w, MkCompleted("NormalizedCounts", job.sample, normalize_sample(job.data)),
                          w_sample[w])
    /\ UNCHANGED w_sample
    /\ ctrl_unchanged

\* process.rs 64-69: an OutputSampleCtg or a Wait job; both answer Completed::None
TaskOutputOrWait(w) ==
    /\ w \in Tasks
    /\ pc[w] = "run"
    /\ inbox[w] # <<>>
    /\ Head(inbox[w]).type \in {"OutputSampleCtg", "Wait"}
    /\ inbox' = [inbox EXCEPT ![w] = Tail(@)]
    /\ send_request(w, CompletedNone, w_sample[w])
    /\ UNCHANGED w_sample
    /\ ctrl_unchanged

\* process.rs 32, 77-78: None received, the task returns Ok
TaskExit(w) ==
    /\ w \in Tasks
    /\ pc[w] = "run"
    /\ inbox[w] # <<>>
    /\ Head(inbox[w]) = NoJob
    /\ inbox' = [inbox EXCEPT ![w] = Tail(@)]
    /\ pc' = [pc EXCEPT ![w] = "done"]
    /\ UNCHANGED <<ctrl_q, w_sample>>
    /\ ctrl_unchanged

\* process.rs 32: recv()? on an empty inbox whose sender is dropped
TaskDisconnected(w) ==
    /\ w \in Tasks
    /\ pc[w] = "run"
    /\ inbox[w] = <<>>
    /\ ctrl_pc # "run"
    /\ pc' = [pc EXCEPT ![w] = "failed"]
    /\ UNCHANGED <<ctrl_q, inbox, w_sample>>
    /\ ctrl_unchanged

\* process.rs 115-140: every thread joined, the first error returned
ProcessSamplesReturn ==
    /\ ret = "none"
    /\ ctrl_pc # "run"
    /\ \A w \in Tasks : pc[w] \in {"done", "failed"}
    /\ ret' = IF ctrl_pc = "done" /\ \A w \in Tasks : pc[w] = "done" THEN "Ok" ELSE "Err"
    /\ UNCHANGED <<cfg, track, sample_vec, sample_idx, sample_data, pending_norm,
                   pending_output, ongoing_output, ctrl_pc, ctrl_q, inbox, pc, w_sample,
                   n_read_sent, n_norm_sent, n_out_sent,
                   merged>>
    /\ UNCHANGED <<reader_vars, gc_vars, later_vars>>

(***************************************************************************)
(* Reader: the state of a process that is reading no region.               *)
(***************************************************************************)
None == -1           \* Option::None of an Option<usize>

NoRec == [tid |-> 0, flag |-> {}, pos |-> 0, reflen |-> 0, mpos |-> None, mapq |-> 0,
          qv |-> <<>>, tlen |-> 0]

NoPrev == [some |-> FALSE, tid |-> 0, pos |-> 0, mpos |-> None]

ReaderIdle ==
    /\ r_cfg = [keep_duplicates |-> FALSE, ignore_dup_flag |-> FALSE, min_mapq |-> 0,
                min_qual |-> 0, min_len |-> 0, max_len |-> None, block_size |-> 1,
                seq_len |-> 0]
    /\ prev_pos = NoPrev
    /\ cov = <<>>
    /\ r_pc = "idle"
    /\ n_recs = 0
    /\ rec = NoRec
    /\ passed = FALSE
    /\ hits = {}

\* No GcBuilder exists.
GcIdle ==
    /\ gc_block_size = 0
    /\ gc_data = <<>>
    /\ gc_counts = <<0, 0, 0>>
    /\ current_pos = 0
    /\ gc_pc = "idle"
    /\ gc_blocks = <<>>

\* GcData::from_reference is not running.
RefIdle ==
    /\ ref_cfg = [nt |-> 1, indexed |-> FALSE, targets |-> {}, present |-> {}]
    /\ ref_pc = "idle"
    /\ ref_q = <<>>
    /\ ref_sent = {}
    /\ rdr_pc = <<>>
    /\ rdr_chash = <<>>
    /\ ref_line = 0
    /\ ref_gcb = 0
    /\ ref_chash = {}
    /\ ref_result = "none"
    /\ norm_rc = {}
    /\ norm_result = "none"

\* parse_ranges is not running.
RangeIdle ==
    /\ rg_list = <<>>
    /\ rg_in = <<>>
    /\ rg_pieces = <<>>
    /\ rg_v = <<>>
    /\ rg_pc = "idle"
    /\ rg_out = [ok |-> FALSE, v |-> <<>>]

\* fdr_n is not running.
FdrIdle ==
    /\ fdr_p = <<>>
    /\ fdr_v = <<>>
    /\ fdr_i = 0
    /\ fdr_min = [num |-> 0, den |-> 1]
    /\ fdr_q = <<>>
    /\ fdr_pc = "idle"

\* robust_sd is not running.
SdIdle ==
    /\ sd_iqr = 0
    /\ sd_n = 0
    /\ sd_pc = "idle"
    /\ sd_out = [some |-> FALSE, num |-> 0, z |-> 1]

\* process_data of lb_region_test is not running.
PdIdle ==
    /\ pd_ctrl = <<>>
    /\ pd_test = <<>>
    /\ pd_r = 0
    /\ pd_reg_data = <<>>
    /\ pd_warned = {}
    /\ pd_rows = <<>>
    /\ pd_pc = "idle"

\* process_samples of lb_norm is not running.
NormIdle ==
    /\ nm_cfg = [control |-> <<>>, output |-> <<>>, data |-> <<>>]
    /\ nm_med = <<>>
    /\ nm_low = 0
    /\ nm_high = 0
    /\ nm_s = 0
    /\ nm_rows = {}
    /\ nm_pc = "idle"

\* smooth is not running.
SmoothIdle ==
    /\ sm_bc = <<>>
    /\ sm_obs = <<>>
    /\ sm_left = 0
    /\ sm_right = 0
    /\ sm_i = 0
    /\ sm_fit = <<>>
    /\ sm_pred = <<>>
    /\ sm_pc = "idle"

\* the worker followed handle by handle is not running.
WorkerIdle ==
    /\ pt_sample_idx = None
    /\ pt_hts = None
    /\ pt_h = None
    /\ pt_open = {}
    /\ pt_job = NoJob
    /\ pt_jobs = 0
    /\ pt_opens = 0
    /\ pt_pc = "idle"

\* read_region_data is not running.
RegionReadIdle ==
    /\ rr_file = <<>>
    /\ rr_ranges = <<>>
    /\ rr_line = 0
    /\ rr_v = <<>>
    /\ rr_out = [some |-> FALSE, s |-> 0, n |-> 0]
    /\ rr_pc = "idle"

\* contig_hash_from_file is not running.
ContigFileIdle ==
    /\ ch_file = <<>>
    /\ ch_line = 0
    /\ ch_hash = {}
    /\ ch_pc = "idle"

\* Every part but part c is at rest / is left as it is.
LaterIdleExcept(c) ==
    /\ IF c = "ref" THEN TRUE ELSE RefIdle
    /\ IF c = "range" THEN TRUE ELSE RangeIdle
    /\ IF c = "fdr" THEN TRUE ELSE FdrIdle
    /\ IF c = "sd" THEN TRUE ELSE SdIdle
    /\ IF c = "pd" THEN TRUE ELSE PdIdle
    /\ IF c = "norm" THEN TRUE ELSE NormIdle
    /\ IF c = "smooth" THEN TRUE ELSE SmoothIdle
    /\ IF c = "worker" THEN TRUE ELSE WorkerIdle
    /\ IF c = "rr" THEN TRUE ELSE RegionReadIdle
    /\ IF c = "ctgfile" THEN TRUE ELSE ContigFileIdle

LaterFrame(c) ==
    /\ IF c = "ref" THEN TRUE ELSE UNCHANGED ref_vars
    /\ IF c = "range" THEN TRUE ELSE UNCHANGED rg_vars
    /\ IF c = "fdr" THEN TRUE ELSE UNCHANGED fdr_vars
    /\ IF c = "sd" THEN TRUE ELSE UNCHANGED sd_vars
    /\ IF c = "pd" THEN TRUE ELSE UNCHANGED pd_vars
    /\ IF c = "norm" THEN TRUE ELSE UNCHANGED nm_vars
    /\ IF c = "smooth" THEN TRUE ELSE UNCHANGED sm_vars
    /\ IF c = "worker" THEN TRUE ELSE UNCHANGED pt_vars
    /\ IF c = "rr" THEN TRUE ELSE UNCHANGED rr_vars
    /\ IF c = "ctgfile" THEN TRUE ELSE UNCHANGED ch_vars

(***************************************************************************)
(* Scheduler: specification.                                               *)
(***************************************************************************)
Init ==
    /\ cfg \in {c \in Configs : c.n_readers <= c.n_tasks}
    /\ track = [r |-> 0, n |-> 0]
    /\ sample_vec = [s \in Samples |-> InputFile_new]
    /\ sample_idx = 0
    /\ sample_data = [s \in Samples |-> NoData]
    /\ pending_norm = <<>>
    /\ pending_output = <<>>
    /\ ongoing_output = NoOutput
    /\ ctrl_pc = "run"
    /\ ctrl_q = <<>>
    /\ inbox = [w \in Tasks |-> <<>>]
    /\ pc = [w \in Tasks |-> "start"]
    /\ w_sample = [w \in Tasks |-> 0]
    /\ ret = "none"
    /\ n_read_sent = [s \in Samples |-> [c \in 0..cfg.nc |-> 0]]
    /\ n_norm_sent = [s \in Samples |-> 0]
    /\ n_out_sent = 0
    /\ merged = [s \in Samples |-> {}]
    /\ ReaderIdle
    /\ GcIdle
    /\ LaterIdleExcept("none")

TaskNext(w) ==
    \/ TaskStart(w)
    \/ TaskReadData(w)
    \/ TaskNormalize(w)
    \/ TaskOutputOrWait(w)
    \/ TaskExit(w)
    \/ TaskDisconnected(w)

Next ==
    \/ ControllerStep
    \/ ControllerExit
    \/ ProcessSamplesReturn
    \/ \E w \in 1..MaxTasks : TaskNext(w)

Spec == Init /\ [][Next]_vars

\* Threads of the operating system: each thread that can run does run.
Fairness ==
    /\ WF_vars(ControllerStep)
    /\ WF_vars(ControllerExit)
    /\ WF_vars(ProcessSamplesReturn)
    /\ \A w \in 1..MaxTasks : WF_vars(TaskNext(w))

FairSpec == Spec /\ Fairness

(***************************************************************************)
(* Scheduler: claims.                                                      *)
(***************************************************************************)
HoldsJob(w, type) == \E k \in 1..Len(inbox[w]) : inbox[w][k].type = type

\* A None reply has been sent to task w
NoneSentTo(w) == pc[w] = "done" \/ HoldsJob(w, "None")

ReadsSent(s) == LET f[c \in 0..cfg.nc] == IF c = 0 THEN n_read_sent[s][0]
                                          ELSE f[c - 1] + n_read_sent[s][c]
                IN f[cfg.nc]

\* C1: for every sample the controller sends NormalizeSample only after the
\* RawCounts of every target contig of that sample have been received and
\* merged, and it sends at most one NormalizeSample per sample.
C1_NormalizeAfterAllRead ==
    \A s \in Samples :
        /\ n_norm_sent[s] <= 1
        /\ n_norm_sent[s] >= 1 => merged[s] = Ctgs

C1_Witness ==
    \E s \in Samples :
        /\ n_norm_sent[s] = 1
        /\ cfg.indexed[s] /\ cfg.nc >= 2 /\ cfg.n_tasks >= 2 /\ cfg.n_readers >= 2
        /\ \E w1, w2 \in Tasks : w1 # w2 /\ w_sample[w1] = s /\ w_sample[w2] = s

\* The run of scenario 3: 1 worker, 1 sample with an indexed file that holds
\* both of the 2 target contigs and can be read.
BasicScenario ==
    /\ cfg.n_tasks = 1 /\ cfg.ns = 1 /\ cfg.nc = 2
    /\ cfg.indexed[1] /\ cfg.fault = NoFault

\* C2: in the basic scenario the jobs sent are exactly 2 ReadData (one per
\* contig), then 1 NormalizeSample, then OutputSampleCtg jobs until the
\* normalised result has no contigs left, then None; no Wait is sent.
C2_BasicSequence ==
    BasicScenario =>
        /\ n_read_sent[1][0] = 0 /\ n_read_sent[1][1] <= 1 /\ n_read_sent[1][2] <= 1
        /\ n_norm_sent[1] <= 1
        /\ n_norm_sent[1] = 1 => ReadsSent(1) = 2
        /\ n_out_sent > 0 => n_norm_sent[1] = 1
        /\ ~HoldsJob(1, "Wait")
        /\ NoneSentTo(1) =>
              /\ ReadsSent(1) = 2 /\ n_norm_sent[1] = 1
              /\ pending_output = <<>> /\ ongoing_output.norm_cov = {}
              /\ track = [r |-> 0, n |-> 0]

C2_Witness == BasicScenario /\ pc[1] = "done" /\ ret = "Ok" /\ n_norm_sent[1] = 1

\* The controller sends a ReadData job in this step
ReadJobSent == n_read_sent' # n_read_sent

\* Reads in flight once the request at the head of the inbox is received
InFlightAtChoice ==
    ReadsInFlight - (IF ctrl_q # <<>> /\ IsRawCounts(Head(ctrl_q)) THEN 1 ELSE 0)

\* C3: the number of ReadData jobs in flight never exceeds n_readers, and a
\* request received while n_readers reads are in flight is never answered
\* with a ReadData job.
C3_ReadersCapped ==
    /\ [](ReadsInFlight <= cfg.n_readers)
    /\ [][ReadJobSent => InFlightAtChoice < cfg.n_readers]_vars

C3_Witness ==
    /\ ReadsInFlight = cfg.n_readers
    /\ cfg.n_tasks > cfg.n_readers
    /\ \E w \in Tasks : HoldsJob(w, "Wait")

AllExited == \A w \in Tasks : pc[w] \in {"done", "failed"}

\* A task failed while executing a job
TaskFailedInJob == cfg.fault.kind = "corrupt" /\ \E w \in Tasks : pc[w] = "failed"

\* C4: if a task fails while executing a job then, with 2 or more tasks,
\* every remaining task eventually exits, the controller exits and
\* process_samples returns the error.
C4_ErrorTerminates ==
    (cfg.n_tasks >= 2 /\ TaskFailedInJob) ~> (AllExited /\ ctrl_pc # "run" /\ ret = "Err")

ErrorFree == cfg.fault = NoFault

Finished ==
    /\ \A w \in Tasks : pc[w] = "done"
    /\ ctrl_pc = "done"
    /\ \A s \in Samples :
          /\ merged[s] = Ctgs
          /\ n_norm_sent[s] = 1
          /\ sample_vec[s].finished
    /\ track = [r |-> 0, n |-> 0]
    /\ pending_norm = <<>> /\ pending_output = <<>> /\ ongoing_output.norm_cov = {}

C6_ReadOncePerContig ==
    \A s \in Samples :
        /\ cfg.indexed[s] =>
              /\ n_read_sent[s][0] = 0
              /\ \A c \in Ctgs : n_read_sent[s][c] <= 1
              /\ ret = "Ok" => \A c \in Ctgs : n_read_sent[s][c] = 1
        /\ ~cfg.indexed[s] =>
              /\ n_read_sent[s][0] <= 1
              /\ \A c \in Ctgs : n_read_sent[s][c] = 0
              /\ ret = "Ok" => n_read_sent[s][0] = 1

C6_Witness ==
    /\ ret = "Ok" /\ cfg.nc >= 2
    /\ \E s1, s2 \in Samples : cfg.indexed[s1] /\ ~cfg.indexed[s2]

\* C12: when one of two or more target contigs is absent from the file of
\* an indexed sample, the run does not fail and the sample has been issued its NormalizeSample
\* job by the time a None is sent to a task.
C12_AbsentContigNormalised ==
    (cfg.fault.kind = "absent" /\ cfg.indexed[cfg.fault.s] /\ cfg.nc >= 2)
        => /\ ret # "Err" /\ ctrl_pc \notin {"failed", "panicked"}
           /\ \A w \in Tasks : NoneSentTo(w) => n_norm_sent[cfg.fault.s] = 1

(***************************************************************************)
(* Reader: records, ReadFilter and RawCounter (reader.rs).                 *)
(***************************************************************************)
MaxPos == 1          \* records start at 0..MaxPos
MaxReadLen == 2      \* a record covers 1..MaxReadLen reference positions
MaxRecs == 3         \* records in the region read

FORBID_FLAGS == {"UNMAP", "SUPPLEMENTARY", "SECONDARY", "QCFAIL"}

PairedForward == {"PAIRED", "PROPER_PAIR", "MREVERSE"}
PairedReverse == {"PAIRED", "PROPER_PAIR", "REVERSE"}
UnpairedFlags == {{}, {"DUP"}, {"QCFAIL"}, {"REVERSE"}}
PairedFlags == {PairedForward, PairedReverse, {"PAIRED", "MREVERSE"}}

\* base qualities of a record of len bases: all 1, or the first one 0
QualVecs(len) == {[k \in 1..len |-> 1], [k \in 1..len |-> IF k = 1 THEN 0 ELSE 1]}

\* the template of a pair whose reads have the same length
TemplateLen(pos, len, mpos) == MaxOf({pos, mpos}) + len - IF pos < mpos THEN pos ELSE mpos

\* The records of the region: an unpaired record has no mate position; low
\* mapping quality and a low base quality come with the plain flags only.
AllRecords ==
    {[tid |-> 0, flag |-> f, pos |-> p, reflen |-> l, mpos |-> None, mapq |-> mq,
      qv |-> q, tlen |-> 0] :
        f \in UnpairedFlags, p \in 0..MaxPos, l \in 1..MaxReadLen, mq \in 0..1,
        q \in UNION {QualVecs(k) : k \in 1..MaxReadLen}}
    \cup
    {[tid |-> 0, flag |-> f, pos |-> p, reflen |-> l, mpos |-> m, mapq |-> mq,
      qv |-> q, tlen |-> TemplateLen(p, l, m)] :
        f \in PairedFlags, p \in 0..MaxPos, l \in 1..MaxReadLen, m \in 0..MaxPos,
        mq \in 0..1, q \in UNION {QualVecs(k) : k \in 1..MaxReadLen}}

Records ==
    {r \in AllRecords :
        /\ Len(r.qv) = r.reflen
        /\ (r.mapq = 0 \/ r.qv[1] = 0) => r.flag \in {{}, PairedForward}
        /\ ~(r.mapq = 0 /\ r.qv[1] = 0)}

TemplateBands == {[min_len |-> 0, max_len |-> None], [min_len |-> 2, max_len |-> None],
                  [min_len |-> 2, max_len |-> 2]}

\* Config as the reader uses it, and the length of the contig: every record
\* lies within the longer contig, and a record that starts at MaxPos with
\* MaxReadLen positions runs one past the end of the shorter one.
ReaderConfigs ==
    {[keep_duplicates |-> k, ignore_dup_flag |-> i, min_mapq |-> 1, min_qual |-> 1,
      min_len |-> b.min_len, max_len |-> b.max_len, block_size |-> bs,
      seq_len |-> sl] :
        k \in BOOLEAN, i \in BOOLEAN, b \in TemplateBands, bs \in 1..2,
        sl \in (MaxPos + MaxReadLen - 1)..(MaxPos + MaxReadLen)}

endpos(r) == r.pos + r.reflen - 1

\* ReadFilter::new
forbid_flags_unpaired(c) ==
    FORBID_FLAGS \cup IF ~(c.ignore_dup_flag \/ c.keep_duplicates) THEN {"DUP"} ELSE {}

forbid_flags_paired(c) == forbid_flags_unpaired(c) \cup {"UNMAP"}

template_ok(c, r) ==
    IF c.max_len # None THEN r.tlen >= c.min_len /\ r.tlen <= c.max_len
    ELSE IF c.min_len > 0 THEN r.tlen >= c.min_len
    ELSE TRUE

\* Mutant of pass_filter: a paired record is not compared with the previous one
pass_filter_keep_all(c, r, prev) ==
    IF "PAIRED" \notin r.flag
    THEN IF r.mapq >= c.min_mapq /\ r.flag \cap forbid_flags_unpaired(c) = {}
         THEN IF prev.some /\ prev.mpos = None
              THEN r.tid # prev.tid \/ r.pos # prev.pos
              ELSE TRUE
         ELSE FALSE
    ELSE IF /\ r.mapq >= c.min_mapq
            /\ r.flag \cap (forbid_flags_paired(c) \cup {"PROPER_PAIR"}) = {"PROPER_PAIR"}
         THEN (r.flag \cap {"REVERSE", "MREVERSE"}) \in {{"REVERSE"}, {"MREVERSE"}}
              /\ template_ok(c, r)
         ELSE FALSE

\* ReadFilter::pass_filter
pass_filter(c, r, prev) ==
    IF "PAIRED" \notin r.flag
    THEN IF r.mapq >= c.min_mapq /\ r.flag \cap forbid_flags_unpaired(c) = {}
         THEN IF prev.some /\ prev.mpos = None
              THEN r.tid # prev.tid \/ r.pos # prev.pos
              ELSE TRUE
         ELSE FALSE
    ELSE IF /\ r.mapq >= c.min_mapq
            /\ r.flag \cap (forbid_flags_paired(c) \cup {"PROPER_PAIR"}) = {"PROPER_PAIR"}
         THEN IF /\ ~c.keep_duplicates
                 /\ prev.some /\ prev.mpos # None
                 /\ r.tid = prev.tid /\ r.pos = prev.pos /\ r.mpos = prev.mpos
              THEN FALSE
              ELSE (r.flag \cap {"REVERSE", "MREVERSE"}) \in {{"REVERSE"}, {"MREVERSE"}}
                   /\ template_ok(c, r)
         ELSE FALSE

\* RawCounter::new
n_bins(c) == (c.seq_len + c.block_size - 1) \div c.block_size

RawCounter_new(c) == [b \in 0..(n_bins(c) - 1) |-> 0]

MinOf(a, b) == IF a < b THEN a ELSE b

\* add_raw_counts, lines 104-150: the interval to count, before it is cut at
\* the contig's end; skip is one of the early returns
count_interval(r) ==
    IF "PAIRED" \in r.flag
    THEN IF "REVERSE" \notin r.flag
         THEN IF r.mpos < r.pos
              THEN [skip |-> TRUE, x |-> r.pos, y |-> r.pos]
              ELSE [skip |-> FALSE, x |-> r.pos, y |-> MinOf(endpos(r) + 1, r.mpos)]
         ELSE IF r.mpos > r.pos
              THEN IF endpos(r) < r.mpos
                   THEN [skip |-> TRUE, x |-> r.pos, y |-> r.pos]
                   ELSE [skip |-> FALSE, x |-> r.mpos, y |-> endpos(r) + 1]
              ELSE [skip |-> FALSE, x |-> r.pos, y |-> endpos(r) + 1]
    ELSE [skip |-> FALSE, x |-> r.pos, y |-> endpos(r) + 1]

\* add_raw_counts, lines 157-165: the positions the loop steps over; it leaves
\* after the step that takes x1 past y
loop_positions(r, y) == {x1 \in r.pos..(r.pos + Len(r.qv) - 1) : x1 <= y}

\* RawCounter::add_raw_counts: the positions whose bin is incremented
add_raw_counts(c, r) ==
    LET iv == count_interval(r)
        y == MinOf(iv.y, c.seq_len)
    IN IF iv.skip \/ y <= iv.x THEN {}
       ELSE {x1 \in loop_positions(r, y) : x1 >= iv.x /\ r.qv[x1 - r.pos + 1] >= c.min_qual}

\* self.cov[x1 / self.block_size] += 1 for every position of h
add_to_cov(c, v, h) ==
    [b \in DOMAIN v |-> v[b] + Cardinality({x1 \in h : x1 \div c.block_size = b})]

\* The scheduler at rest while a single read job is followed.
SchedIdle ==
    /\ cfg = [n_tasks |-> 1, n_readers |-> 1, ns |-> 1, nc |-> 1, indexed |-> [s \in 1..1 |-> TRUE],
              fault |-> NoFault]
    /\ track = [r |-> 0, n |-> 0]
    /\ sample_vec = [s \in 1..1 |-> InputFile_new]
    /\ sample_idx = 0
    /\ sample_data = [s \in 1..1 |-> NoData]
    /\ pending_norm = <<>>
    /\ pending_output = <<>>
    /\ ongoing_output = NoOutput
    /\ ctrl_pc = "run"
    /\ ctrl_q = <<>>
    /\ inbox = [w \in 1..1 |-> <<>>]
    /\ pc = [w \in 1..1 |-> "start"]
    /\ w_sample = [w \in 1..1 |-> 0]
    /\ ret = "none"
    /\ n_read_sent = [s \in 1..1 |-> [c \in 0..1 |-> 0]]
    /\ n_norm_sent = [s \in 1..1 |-> 0]
    /\ n_out_sent = 0
    /\ merged = [s \in 1..1 |-> {}]

\* read_ctg_coverage_data, lines 197-206
ReaderInit ==
    /\ SchedIdle
    /\ GcIdle
    /\ LaterIdleExcept("none")
    /\ r_cfg \in ReaderConfigs
    /\ prev_pos = NoPrev
    /\ cov = RawCounter_new(r_cfg)
    /\ r_pc = "reading"
    /\ n_recs = 0
    /\ rec = NoRec
    /\ passed = FALSE
    /\ hits = {}

\* One turn of the loop: the record fails the filter (lines 208-210)
ReadRejected ==
    /\ r_pc = "reading"
    /\ n_recs < MaxRecs
    /\ \E r \in Records :
          /\ ~pass_filter(r_cfg, r, prev_pos)
          /\ rec' = r
    /\ passed' = FALSE
    /\ hits' = {}
    /\ n_recs' = n_recs + 1
    /\ UNCHANGED <<r_cfg, prev_pos, cov, r_pc>>
    /\ UNCHANGED <<sched_vars, gc_vars, later_vars>>

\* One turn of the loop: the record passes and is counted (lines 208-213)
ReadAccepted ==
    /\ r_pc = "reading"
    /\ n_recs < MaxRecs
    /\ \E r \in Records :
          /\ pass_filter(r_cfg, r, prev_pos)
          /\ \A x1 \in add_raw_counts(r_cfg, r) : x1 \div r_cfg.block_size < n_bins(r_cfg)
          /\ rec' = r
          /\ hits' = add_raw_counts(r_cfg, r)
          /\ cov' = add_to_cov(r_cfg, cov, add_raw_counts(r_cfg, r))
          /\ prev_pos' = [some |-> TRUE, tid |-> r.tid, pos |-> r.pos, mpos |-> r.mpos]
    /\ passed' = TRUE
    /\ n_recs' = n_recs + 1
    /\ UNCHANGED <<r_cfg, r_pc>>
    /\ UNCHANGED <<sched_vars, gc_vars, later_vars>>

\* One turn of the loop: the record passes and a position to count lies in no
\* bin of cov; the index panics (line 160)
ReadPanics ==
    /\ r_pc = "reading"
    /\ n_recs < MaxRecs
    /\ \E r \in Records :
          /\ pass_filter(r_cfg, r, prev_pos)
          /\ \E x1 \in add_raw_counts(r_cfg, r) : x1 \div r_cfg.block_size >= n_bins(r_cfg)
          /\ rec' = r
          /\ hits' = add_raw_counts(r_cfg, r)
    /\ passed' = TRUE
    /\ r_pc' = "panicked"
    /\ n_recs' = n_recs + 1
    /\ UNCHANGED <<r_cfg, prev_pos, cov>>
    /\ UNCHANGED <<sched_vars, gc_vars, later_vars>>

\* rdr.read returns false: rc.insert(raw_cov.ctg, raw_cov.cov) (lines 208, 215)
ReadEnd ==
    /\ r_pc = "reading"
    /\ r_pc' = "done"
    /\ UNCHANGED <<r_cfg, prev_pos, cov, n_recs, rec, passed, hits>>
    /\ UNCHANGED <<sched_vars, gc_vars, later_vars>>

ReaderNext ==
    \/ ReadRejected
    \/ ReadAccepted
    \/ ReadPanics
    \/ ReadEnd

ReaderSpec == ReaderInit /\ [][ReaderNext]_vars

(***************************************************************************)
(* Reader: properties.                                                     *)
(***************************************************************************)
\* the loop has just read a record
RecordRead == n_recs' = n_recs + 1

RefInterval(r) == r.pos..endpos(r)

AllQualOk(r) == \A k \in 1..Len(r.qv) : r.qv[k] >= r_cfg.min_qual

\* a is the forward read and b the reverse read of one proper pair, the two
\* overlap on the reference, lie within the contig and have no base below
\* the quality threshold
OverlappingPair(a, b) ==
    /\ a.flag = PairedForward /\ b.flag = PairedReverse
    /\ a.tid = b.tid /\ a.mpos = b.pos /\ b.mpos = a.pos
    /\ RefInterval(a) \cap RefInterval(b) # {}
    /\ endpos(a) < r_cfg.seq_len /\ endpos(b) < r_cfg.seq_len
    /\ AllQualOk(a) /\ AllQualOk(b)

\* C7: when the two reads of an overlapping proper pair are counted one after
\* the other, the increments of the two together are as many as the positions
\* of the union of the two reads' reference intervals, and no position is
\* incremented for both reads.
C7_PairCountedOnce ==
    [][(RecordRead /\ passed /\ passed' /\ OverlappingPair(rec, rec'))
        => /\ Cardinality(hits) + Cardinality(hits')
               = Cardinality(RefInterval(rec) \cup RefInterval(rec'))
           /\ hits \cap hits' = {}]_vars

SameKey(r, prev) == prev.some /\ r.tid = prev.tid /\ r.pos = prev.pos /\ r.mpos = prev.mpos

\* C8: with keep_duplicates false, a record read again right after itself is
\* rejected; the counts and the remembered position stay as the first reading
\* left them, however many times it is read again.
C8_RepeatRejected ==
    [][(RecordRead /\ ~r_cfg.keep_duplicates /\ rec' = rec)
        => /\ ~passed'
           /\ hits' = {}
           /\ cov' = cov
           /\ prev_pos' = prev_pos]_vars

\* a record was accepted and counted, and read again: the second reading is rejected
C8_Witness ==
    /\ ~r_cfg.keep_duplicates
    /\ n_recs = 2
    /\ r_pc = "reading"
    /\ SameKey(rec, prev_pos)
    /\ pass_filter(r_cfg, rec, NoPrev)
    /\ ~passed
    /\ \E b \in DOMAIN cov : cov[b] > 0

\* C9: an unpaired record passes exactly when its mapping quality reaches the
\* minimum, it has no forbidden flag and, unless duplicates are kept, it does
\* not lie where the previous accepted unpaired record lies.
C9_UnpairedFilter ==
    [][(RecordRead /\ "PAIRED" \notin rec'.flag)
        => (passed' <=>
               /\ rec'.mapq >= r_cfg.min_mapq
               /\ rec'.flag \cap forbid_flags_unpaired(r_cfg) = {}
               /\ \/ r_cfg.keep_duplicates
                  \/ ~(/\ prev_pos.some /\ prev_pos.mpos = None
                       /\ rec'.tid = prev_pos.tid /\ rec'.pos = prev_pos.pos))]_vars

(***************************************************************************)
(* GC content: GcBuilder (gc.rs).                                          *)
(***************************************************************************)
GcSpill == 2         \* a sequence has up to block_size + GcSpill bases

GcBlockSizes == {10, 100}

Bases == {"A", "C", "G", "T", "N", "a", "c", "g", "t"}

N_GC_BINS == 100

\* (0.9 * (N_GC_BINS as f64)) as u32
MIN_GC_COUNT == (9 * N_GC_BINS) \div 10

\* MTAB[c]: 1 for A and T, 2 for C and G, 0 for every other byte; as an index
\* into counts, which starts at 1 here
MTAB(c) ==
    IF c \in {"A", "T", "a", "t"} THEN 2
    ELSE IF c \in {"C", "G", "c", "g"} THEN 3
    ELSE 1

\* The quotients g/tot, tot <= 100, whose f64 product with 100.0 lies just
\* below the integer that 100*g/tot is: 0.29 * 100.0 = 28.999999999999996
F64BelowInteger == {<<29, 50>>, <<29, 100>>, <<57, 100>>, <<58, 100>>}

\* ((g as f64 / tot as f64) * (N_GC_BINS as f64)).floor() as u32
f64_scaled_floor(g, tot) ==
    ((g * N_GC_BINS) \div tot) - IF <<g, tot>> \in F64BelowInteger THEN 1 ELSE 0

NoBin == [some |-> FALSE, v |-> 0]

\* GcBuilder::bin
bin(counts, block_size) ==
    LET tot == counts[2] + counts[3]
    IN IF tot >= MIN_GC_COUNT
       THEN [some |-> TRUE, v |-> MinOf(f64_scaled_floor(counts[3], tot), N_GC_BINS - 1)]
       ELSE NoBin

\* GcBuilder::new
GcInit ==
    /\ SchedIdle
    /\ ReaderIdle
    /\ LaterIdleExcept("none")
    /\ gc_block_size \in GcBlockSizes
    /\ gc_data = <<>>
    /\ gc_counts = <<0, 0, 0>>
    /\ current_pos = 0
    /\ gc_pc = "building"
    /\ gc_blocks = <<>>

\* GcBuilder::add_u8, with the update_vec it calls when the position has
\* entered the next block
add_u8(c) ==
    /\ gc_pc = "building"
    /\ current_pos < gc_block_size + GcSpill
    /\ IF current_pos \div gc_block_size # Len(gc_data)
       THEN /\ gc_data' = Append(gc_data, bin(gc_counts, gc_block_size))
            /\ gc_blocks' = Append(gc_blocks, gc_counts)
            /\ gc_counts' = [<<0, 0, 0>> EXCEPT ![MTAB(c)] = 1]
       ELSE /\ gc_counts' = [gc_counts EXCEPT ![MTAB(c)] = @ + 1]
            /\ UNCHANGED <<gc_data, gc_blocks>>
    /\ current_pos' = current_pos + 1
    /\ UNCHANGED <<gc_block_size, gc_pc>>
    /\ UNCHANGED <<sched_vars, reader_vars, later_vars>>

\* GcCtgData::from_builder: the last update_vec
from_builder ==
    /\ gc_pc = "building"
    /\ gc_data' = Append(gc_data, bin(gc_counts, gc_block_size))
    /\ gc_blocks' = Append(gc_blocks, gc_counts)
    /\ gc_counts' = <<0, 0, 0>>
    /\ gc_pc' = "built"
    /\ UNCHANGED <<gc_block_size, current_pos>>
    /\ UNCHANGED <<sched_vars, reader_vars, later_vars>>

GcNext ==
    \/ \E c \in Bases : add_u8(c)
    \/ from_builder

GcSpec == GcInit /\ [][GcNext]_vars

(***************************************************************************)
(* GC content: properties.                                                 *)
(***************************************************************************)
\* C10: a block gets a class exactly when its AT and GC bases together are at
\* least nine tenths of block_size, and the class is floor(100 * GC / (AT + GC)),
\* at most 99; the other blocks get None.
C10_ClassIffEnoughBases ==
    \A i \in DOMAIN gc_data :
        LET at == gc_blocks[i][2]
            g == gc_blocks[i][3]
        IN IF 10 * (at + g) >= 9 * gc_block_size
           THEN gc_data[i] = [some |-> TRUE,
                              v |-> MinOf((100 * g) \div (at + g), 99)]
           ELSE gc_data[i] = NoBin

(***************************************************************************)
(* GC content: GcData::from_reference, and collect_bin_data after it.      *)
(***************************************************************************)
MaxRefCtgs == 2      \* contigs 1..MaxRefCtgs; contig 1 is "chr1"
MaxRefThreads == 2   \* nt ranges over 1..MaxRefThreads

early_vars == <<sched_vars, reader_vars, gc_vars>>

EarlyIdle == SchedIdle /\ ReaderIdle /\ GcIdle

RefCtgs == 1..MaxRefCtgs

chr1 == 1

\* The target set is not empty; the reference holds any of the contigs.
RefConfigs ==
    {[nt |-> n, indexed |-> ix, targets |-> t, present |-> p] :
        n \in 1..MaxRefThreads, ix \in BOOLEAN,
        t \in SUBSET RefCtgs \ {{}}, p \in SUBSET RefCtgs}

RefThreads == 1..ref_cfg.nt

\* GcData::from_reference: the choice of the way to read
RefInit ==
    /\ EarlyIdle
    /\ LaterIdleExcept("ref")
    /\ ref_cfg \in RefConfigs
    /\ ref_pc = IF ref_cfg.nt = 1 \/ ~ref_cfg.indexed THEN "single" ELSE "send"
    /\ ref_q = <<>>
    /\ ref_sent = {}
    /\ rdr_pc = [i \in RefThreads |-> "start"]
    /\ rdr_chash = [i \in RefThreads |-> {}]
    /\ ref_line = 0
    /\ ref_gcb = 0
    /\ ref_chash = {}
    /\ ref_result = "none"
    /\ norm_rc = {}
    /\ norm_result = "none"

ref_frame == UNCHANGED early_vars /\ LaterFrame("ref")

\* multi_threaded_read: snd.send(ctg) for the next key of ctg_hash, in the
\* map's order; the send fails when every reader has dropped its receiver
RefSend ==
    /\ ref_pc = "send"
    /\ \E ctg \in ref_cfg.targets \ ref_sent :
          IF \A i \in RefThreads : rdr_pc[i] \in {"ok", "err"}
          THEN /\ ref_pc' = "join"
               /\ UNCHANGED <<ref_q, ref_sent>>
          ELSE /\ ref_q' = Append(ref_q, ctg)
               /\ ref_sent' = ref_sent \cup {ctg}
               /\ ref_pc' = ref_pc
    /\ UNCHANGED <<ref_cfg, rdr_pc, rdr_chash, ref_line, ref_gcb, ref_chash, ref_result,
                   norm_rc, norm_result>>
    /\ ref_frame

\* multi_threaded_read: every key sent, drop(snd)
RefSendDone ==
    /\ ref_pc = "send"
    /\ ref_sent = ref_cfg.targets
    /\ ref_pc' = "join"
    /\ UNCHANGED <<ref_cfg, ref_q, ref_sent, rdr_pc, rdr_chash, ref_line, ref_gcb,
                   ref_chash, ref_result, norm_rc, norm_result>>
    /\ ref_frame

\* reader: Faidx::load
ReaderLoad(i) ==
    /\ ref_pc \in {"send", "join"}
    /\ i \in RefThreads
    /\ rdr_pc[i] = "start"
    /\ rdr_pc' = [rdr_pc EXCEPT ![i] = "run"]
    /\ UNCHANGED <<ref_cfg, ref_pc, ref_q, ref_sent, rdr_chash, ref_line, ref_gcb,
                   ref_chash, ref_result, norm_rc, norm_result>>
    /\ ref_frame

\* reader: one turn of the loop; fetch_seq(ctg, 0, None)? returns the error
\* for a contig the reference does not hold
ReaderFetch(i) ==
    /\ ref_pc \in {"send", "join"}
    /\ i \in RefThreads
    /\ rdr_pc[i] = "run"
    /\ ref_q # <<>>
    /\ ref_q' = Tail(ref_q)
    /\ IF Head(ref_q) \in ref_cfg.present
       THEN /\ rdr_chash' = [rdr_chash EXCEPT ![i] = @ \cup {Head(ref_q)}]
            /\ rdr_pc' = rdr_pc
       ELSE /\ rdr_pc' = [rdr_pc EXCEPT ![i] = "err"]
            /\ rdr_chash' = rdr_chash
    /\ UNCHANGED <<ref_cfg, ref_pc, ref_sent, ref_line, ref_gcb, ref_chash, ref_result,
                   norm_rc, norm_result>>
    /\ ref_frame

\* reader: r.recv() fails, the channel is empty and its sender dropped
ReaderClose(i) ==
    /\ ref_pc = "join"
    /\ i \in RefThreads
    /\ rdr_pc[i] = "run"
    /\ ref_q = <<>>
    /\ rdr_pc' = [rdr_pc EXCEPT ![i] = "ok"]
    /\ UNCHANGED <<ref_cfg, ref_pc, ref_q, ref_sent, rdr_chash, ref_line, ref_gcb,
                   ref_chash, ref_result, norm_rc, norm_result>>
    /\ ref_frame

\* multi_threaded_read: the results collected, then chash.get("chr1").unwrap()
RefCollect ==
    /\ ref_pc = "join"
    /\ \A i \in RefThreads : rdr_pc[i] \in {"ok", "err"}
    /\ ref_pc' = "done"
    /\ IF \E i \in RefThreads : rdr_pc[i] = "err"
       THEN /\ ref_result' = "Err"
            /\ ref_chash' = ref_chash
       ELSE /\ ref_chash' = UNION {rdr_chash[i] : i \in RefThreads}
            /\ ref_result' = IF chr1 \in UNION {rdr_chash[i] : i \in RefThreads}
                             THEN "Ok" ELSE "Panic"
    /\ UNCHANGED <<ref_cfg, ref_q, ref_sent, rdr_pc, rdr_chash, ref_line, ref_gcb,
                   norm_rc, norm_result>>
    /\ ref_frame

\* single_threaded_read: the lines up to and with the next header line; the
\* file holds the contigs of present, in order
RefHeader ==
    /\ ref_pc = "single"
    /\ ref_line < MaxRefCtgs
    /\ ref_line' = ref_line + 1
    /\ IF ref_line + 1 \in ref_cfg.present
       THEN /\ ref_chash' = ref_chash \cup (IF ref_gcb # 0 THEN {ref_gcb} ELSE {})
            /\ ref_gcb' = IF ref_line + 1 \in ref_cfg.targets THEN ref_line + 1 ELSE 0
       ELSE UNCHANGED <<ref_chash, ref_gcb>>
    /\ UNCHANGED <<ref_cfg, ref_pc, ref_q, ref_sent, rdr_pc, rdr_chash, ref_result,
                   norm_rc, norm_result>>
    /\ ref_frame

\* single_threaded_read: end of file, then chash.get("chr1").unwrap()
RefEof ==
    /\ ref_pc = "single"
    /\ ref_line = MaxRefCtgs
    /\ ref_pc' = "done"
    /\ ref_gcb' = 0
    /\ ref_chash' = ref_chash \cup (IF ref_gcb # 0 THEN {ref_gcb} ELSE {})
    /\ ref_result' = IF chr1 \in ref_chash \cup {ref_gcb} THEN "Ok" ELSE "Panic"
    /\ UNCHANGED <<ref_cfg, ref_q, ref_sent, rdr_pc, rdr_chash, ref_line,
                   norm_rc, norm_result>>
    /\ ref_frame

\* collect_bin_data on a sample's RawCounts: .expect("Missing GC data for
\* contig") for every contig of the target set the RawCounts holds
CollectBinData ==
    /\ ref_pc = "done"
    /\ ref_result = "Ok"
    /\ norm_result = "none"
    /\ \E rc \in SUBSET ref_cfg.targets :
          /\ norm_rc' = rc
          /\ norm_result' = IF rc \subseteq ref_chash THEN "ok" ELSE "panic"
    /\ UNCHANGED <<ref_cfg, ref_pc, ref_q, ref_sent, rdr_pc, rdr_chash, ref_line, ref_gcb,
                   ref_chash, ref_result>>
    /\ ref_frame

RefNext ==
    \/ RefSend
    \/ RefSendDone
    \/ \E i \in 1..MaxRefThreads : ReaderLoad(i) \/ ReaderFetch(i) \/ ReaderClose(i)
    \/ RefCollect
    \/ RefHeader
    \/ RefEof
    \/ CollectBinData

RefSpec == RefInit /\ [][RefNext]_vars

\* C11: with a target contig absent from the reference (chr1 being a target
\* and present), the build ends Ok in either mode with GC data for exactly
\* the target contigs the reference holds, and collect_bin_data goes on
\* for a sample that has counts for contigs of the reference only.
C11_AbsentContigTolerated ==
    (/\ ref_pc = "done"
     /\ ref_cfg.targets \ ref_cfg.present # {}
     /\ chr1 \in ref_cfg.targets \cap ref_cfg.present)
        => /\ ref_result = "Ok"
           /\ ref_chash = ref_cfg.targets \cap ref_cfg.present
           /\ norm_rc \subseteq ref_cfg.present => norm_result # "panic"

(***************************************************************************)
(* Region test: parse_ranges (lb_region_test/src/region.rs).               *)
(***************************************************************************)
MaxCoord == 3        \* coordinates 0..MaxCoord, and the two of BigCoords
MaxRanges == 3       \* a ranges field lists 1..MaxRanges ranges

BigCoords == {1000, 2000}

\* ---- the text of a ranges field, as the file's writer produces it
DigitChars == <<"0", "1", "2", "3", "4", "5", "6", "7", "8", "9">>

RECURSIVE ToDigits(_)
ToDigits(n) ==
    IF n < 10 THEN <<DigitChars[n + 1]>>
    ELSE ToDigits(n \div 10) \o <<DigitChars[(n % 10) + 1]>>

\* a comma before every group of three digits
RECURSIVE WithCommas(_)
WithCommas(d) ==
    IF Len(d) <= 3 THEN d
    ELSE WithCommas(SubSeq(d, 1, Len(d) - 3)) \o <<",">> \o SubSeq(d, Len(d) - 2, Len(d))

FormatCoord(n, commas) == IF commas THEN WithCommas(ToDigits(n)) ELSE ToDigits(n)

\* the ways a range is written: a-b, " a:b", and a-b with thousands separators
Styles == {[sep |-> "-", lead |-> FALSE, commas |-> FALSE],
           [sep |-> ":", lead |-> TRUE, commas |-> FALSE],
           [sep |-> "-", lead |-> FALSE, commas |-> TRUE]}

FormatRange(it) ==
    (IF it.style.lead THEN <<" ">> ELSE <<>>)
    \o FormatCoord(it.a, it.style.commas) \o <<it.style.sep>>
    \o FormatCoord(it.b, it.style.commas)

RECURSIVE FormatList(_)
FormatList(l) ==
    IF Len(l) = 1 THEN FormatRange(l[1])
    ELSE FormatRange(l[1]) \o <<",">> \o FormatList(Tail(l))

RangeItems ==
    {[a |-> a, b |-> b, style |-> st] : a \in 0..MaxCoord, b \in 0..MaxCoord, st \in Styles}
    \cup {[a |-> a, b |-> b, style |-> st] : a \in BigCoords, b \in BigCoords, st \in Styles}

\* "1,000-2,000, 2500-3000, 2750:4000"
ExampleList ==
    <<[a |-> 1000, b |-> 2000, style |-> [sep |-> "-", lead |-> FALSE, commas |-> TRUE]],
      [a |-> 2500, b |-> 3000, style |-> [sep |-> "-", lead |-> TRUE, commas |-> FALSE]],
      [a |-> 2750, b |-> 4000, style |-> [sep |-> ":", lead |-> TRUE, commas |-> FALSE]]>>

RangeLists == UNION {[1..n -> RangeItems] : n \in 1..MaxRanges} \cup {ExampleList}

\* ---- parse_ranges
\* s.split(','): the pieces between the commas
RECURSIVE split(_)
split(s) ==
    IF \A i \in 1..Len(s) : s[i] # ","
    THEN <<s>>
    ELSE LET i == CHOOSE k \in 1..Len(s) : s[k] = "," /\ \A j \in 1..(k - 1) : s[j] # ","
         IN <<SubSeq(s, 1, i - 1)>> \o split(SubSeq(s, i + 1, Len(s)))

\* the first index from i on where s has no character of class
RECURSIVE SkipClass(_, _, _)
SkipClass(s, i, class) ==
    IF i <= Len(s) /\ s[i] \in class THEN SkipClass(s, i + 1, class) ELSE i

WsClass == {" "}

NumClass == {"0", "1", "2", "3", "4", "5", "6", "7", "8", "9", ","}

\* r.captures(s1) for ^\s*([0-9,]+)\s*[-:]\s*([0-9,]+)\s*$
captures(s1) ==
    LET i1 == SkipClass(s1, 1, WsClass)
        i2 == SkipClass(s1, i1, NumClass)
        i3 == SkipClass(s1, i2, WsClass)
        i4 == SkipClass(s1, i3 + 1, WsClass)
        i5 == SkipClass(s1, i4, NumClass)
        i6 == SkipClass(s1, i5, WsClass)
    IN IF /\ i2 > i1
          /\ i3 <= Len(s1) /\ s1[i3] \in {"-", ":"}
          /\ i5 > i4
          /\ i6 = Len(s1) + 1
       THEN [ok |-> TRUE, g1 |-> SubSeq(s1, i1, i2 - 1), g2 |-> SubSeq(s1, i4, i5 - 1)]
       ELSE [ok |-> FALSE, g1 |-> <<>>, g2 |-> <<>>]

DigitVal(c) == CHOOSE d \in 0..9 : DigitChars[d + 1] = c

RECURSIVE DigitsVal(_)
DigitsVal(d) ==
    IF Len(d) = 1 THEN DigitVal(d[1])
    ELSE 10 * DigitsVal(SubSeq(d, 1, Len(d) - 1)) + DigitVal(d[Len(d)])

NotComma(c) == c # ","

\* parse_usize_with_commas: [ok, n]
parse_usize_with_commas(g) ==
    IF SelectSeq(g, NotComma) = <<>> THEN [ok |-> FALSE, n |-> 0]
    ELSE [ok |-> TRUE, n |-> DigitsVal(SelectSeq(g, NotComma))]

\* parse_single_range: [ok, a, b]
parse_single_range(g1, g2) ==
    LET a == parse_usize_with_commas(g1)
        b == parse_usize_with_commas(g2)
    IN IF a.ok /\ b.ok /\ b.n >= a.n THEN [ok |-> TRUE, a |-> a.n, b |-> b.n]
       ELSE [ok |-> FALSE, a |-> 0, b |-> 0]

\* v.sort_unstable_by_key(|(a, _)| *a): any order of v with the keys ascending
sort_unstable_by_key(v) ==
    {[i \in 1..Len(v) |-> v[p[i]]] :
        p \in {q \in [1..Len(v) -> 1..Len(v)] :
                 /\ \A i, j \in 1..Len(v) : i # j => q[i] # q[j]
                 /\ \A i \in 1..(Len(v) - 1) : v[q[i]].a <= v[q[i + 1]].a}}

\* Mutant of overlaps: a range that starts at the end of prev is not merged
overlaps_strict(r, prev) == r.a < prev.b

\* the test for overlap of the next range with prev
overlaps(r, prev) == r.a <= prev.b

\* the loop over v[1..] that forms v1
RECURSIVE merge(_, _, _, _)
merge(v, i, prev, v1) ==
    IF i > Len(v) THEN Append(v1, prev)
    ELSE IF overlaps(v[i], prev)
         THEN merge(v, i + 1, [a |-> prev.a, b |-> MaxOf({prev.b, v[i].b})], v1)
         ELSE merge(v, i + 1, v[i], Append(v1, prev))

RangeInit ==
    /\ EarlyIdle
    /\ LaterIdleExcept("range")
    /\ rg_list \in RangeLists
    /\ rg_in = FormatList(rg_list)
    /\ rg_pieces = split(rg_in)
    /\ rg_v = <<>>
    /\ rg_pc = "parse"
    /\ rg_out = [ok |-> FALSE, v |-> <<>>]

rg_frame == UNCHANGED early_vars /\ LaterFrame("range")

\* One turn of the loop over the pieces: the piece does not match, or its
\* range is in error, and parse_ranges returns Err
RangePieceBad ==
    /\ rg_pc = "parse"
    /\ rg_pieces # <<>>
    /\ \E c \in {captures(Head(rg_pieces))} :
          ~c.ok \/ ~parse_single_range(c.g1, c.g2).ok
    /\ rg_pc' = "done"
    /\ rg_out' = [ok |-> FALSE, v |-> <<>>]
    /\ UNCHANGED <<rg_list, rg_in, rg_pieces, rg_v>>
    /\ rg_frame

\* One turn of the loop over the pieces: the range is pushed on v
RangePiece ==
    /\ rg_pc = "parse"
    /\ rg_pieces # <<>>
    /\ \E c \in {captures(Head(rg_pieces))} :
          /\ c.ok
          /\ \E r \in {parse_single_range(c.g1, c.g2)} :
                /\ r.ok
                /\ rg_v' = Append(rg_v, [a |-> r.a, b |-> r.b])
    /\ rg_pieces' = Tail(rg_pieces)
    /\ UNCHANGED <<rg_list, rg_in, rg_pc, rg_out>>
    /\ rg_frame

\* After the loop: sort and merge
RangeFinish ==
    /\ rg_pc = "parse"
    /\ rg_pieces = <<>>
    /\ rg_pc' = "done"
    /\ IF rg_v = <<>>
       THEN rg_out' = [ok |-> FALSE, v |-> <<>>]
       ELSE IF Len(rg_v) > 1
            THEN \E sv \in sort_unstable_by_key(rg_v) :
                    rg_out' = [ok |-> TRUE, v |-> merge(sv, 2, sv[1], <<>>)]
            ELSE rg_out' = [ok |-> TRUE, v |-> rg_v]
    /\ UNCHANGED <<rg_list, rg_in, rg_pieces, rg_v>>
    /\ rg_frame

RangeNext ==
    \/ RangePieceBad
    \/ RangePiece
    \/ RangeFinish

RangeSpec == RangeInit /\ [][RangeNext]_vars

(***************************************************************************)
(* Region test: properties of parse_ranges.                                *)
(***************************************************************************)
AllValid(l) == \A i \in 1..Len(l) : l[i].b >= l[i].a

Cover(v) == UNION {v[i].a..v[i].b : i \in 1..Len(v)}

\* no coordinate of l is written with a thousands separator
PlainText(l) ==
    \A i \in 1..Len(l) : l[i].style.commas => l[i].a < 1000 /\ l[i].b < 1000

\* C13: a list of valid ranges whose coordinates are written with thousands
\* separators parses successfully; "1,000-2,000, 2500-3000, 2750:4000" gives
\* [(1000,2000),(2500,4000)].
C13_ThousandsSeparators ==
    (rg_pc = "done" /\ AllValid(rg_list))
        => /\ rg_out.ok
           /\ rg_list = ExampleList
                 => rg_out.v = <<[a |-> 1000, b |-> 2000], [a |-> 2500, b |-> 4000]>>

\* C14: for a list of valid ranges the result is sorted by start, has every
\* b >= a, has each next start above the previous end and covers exactly what
\* the input ranges cover; a list with a range whose b < a gives an error.
C14_SortedMerged ==
    (rg_pc = "done" /\ PlainText(rg_list))
        => IF AllValid(rg_list)
           THEN /\ rg_out.ok
                /\ \A i \in 1..Len(rg_out.v) : rg_out.v[i].b >= rg_out.v[i].a
                /\ \A i \in 1..(Len(rg_out.v) - 1) : rg_out.v[i + 1].a > rg_out.v[i].b
                /\ Cover(rg_out.v) = Cover(rg_list)
           ELSE ~rg_out.ok

\* three ranges given out of order, two of which merge
C14_Witness ==
    /\ rg_pc = "done"
    /\ rg_out.ok
    /\ PlainText(rg_list)
    /\ Len(rg_list) = 3
    /\ rg_list[1].a > rg_list[2].a
    /\ Len(rg_out.v) = 2

(***************************************************************************)
(* Utils: fdr / fdr_n (utils/src/lib.rs).                                  *)
(***************************************************************************)
MaxPvals == 4        \* a vector of 0..MaxPvals p-values

PUnit == 100         \* a p-value x stands for x / PUnit

PVals == {0, 1, 2, 3, 4, PUnit}

\* Fractions [num, den], den > 0
FracLe(f, g) == f.num * g.den <= g.num * f.den

FracEq(f, g) == f.num * g.den = g.num * f.den

FracMin(f, g) == IF FracLe(f, g) THEN f ELSE g

\* v.sort_unstable_by(partial_cmp): any order of the indices with p ascending
sort_unstable_by(p) ==
    {q \in [1..Len(p) -> 1..Len(p)] :
        /\ \A i, j \in 1..Len(p) : i # j => q[i] # q[j]
        /\ \A i \in 1..(Len(p) - 1) : p[q[i]] <= p[q[i + 1]]}

\* Mutant of fdr_min_p: the running minimum is forgotten
fdr_min_p_raw(min_p, n, rank, pv) == [num |-> n * pv, den |-> rank]

\* min_p.min((n / ((i + 1) as f64)) * *p)
fdr_min_p(min_p, n, rank, pv) == FracMin(min_p, [num |-> n * pv, den |-> rank])

FdrInit ==
    /\ EarlyIdle
    /\ LaterIdleExcept("fdr")
    /\ fdr_p \in UNION {[1..n -> PVals] : n \in 0..MaxPvals}
    /\ fdr_v = <<>>
    /\ fdr_i = 0
    /\ fdr_min = [num |-> PUnit, den |-> 1]
    /\ fdr_q = [k \in 1..Len(fdr_p) |-> [num |-> 0, den |-> 1]]
    /\ fdr_pc = "sort"

fdr_frame == UNCHANGED early_vars /\ LaterFrame("fdr")

\* fdr_n, lines 253-257: the sorted vector, min_p = 1.0, q zeroed
FdrSort ==
    /\ fdr_pc = "sort"
    /\ fdr_v' \in sort_unstable_by(fdr_p)
    /\ fdr_i' = Len(fdr_p)
    /\ fdr_pc' = "loop"
    /\ UNCHANGED <<fdr_p, fdr_min, fdr_q>>
    /\ fdr_frame

\* fdr_n, lines 258-261: one turn of the loop, from the largest rank down
FdrStep ==
    /\ fdr_pc = "loop"
    /\ fdr_i > 0
    /\ fdr_min' = fdr_min_p(fdr_min, Len(fdr_p), fdr_i, fdr_p[fdr_v[fdr_i]])
    /\ fdr_q' = [fdr_q EXCEPT ![fdr_v[fdr_i]] =
                    fdr_min_p(fdr_min, Len(fdr_p), fdr_i, fdr_p[fdr_v[fdr_i]])]
    /\ fdr_i' = fdr_i - 1
    /\ UNCHANGED <<fdr_p, fdr_v, fdr_pc>>
    /\ fdr_frame

\* fdr_n, line 262: q returned
FdrReturn ==
    /\ fdr_pc = "loop"
    /\ fdr_i = 0
    /\ fdr_pc' = "done"
    /\ UNCHANGED <<fdr_p, fdr_v, fdr_i, fdr_min, fdr_q>>
    /\ fdr_frame

FdrNext ==
    \/ FdrSort
    \/ FdrStep
    \/ FdrReturn

FdrSpec == FdrInit /\ [][FdrNext]_vars

\* the p-values p in ascending order
Ascending(p) ==
    LET q == CHOOSE q \in sort_unstable_by(p) : TRUE
    IN  [i \in 1..Len(p) |-> p[q[i]]]

\* (N / j) * p_(j), for sp the p-values in ascending order
BhTerm(sp, j) == [num |-> Len(sp) * sp[j], den |-> j]

\* C15: the q returned for a p-value of ascending rank r is the minimum over
\* the ranks j >= r of (N / j) * p_(j), stored at the index of the p-value;
\* for p = [0.04, 0.03, 0.02, 0.01] it is 0.04 at every index.
C15_BenjaminiHochberg ==
    fdr_pc = "done"
        => \E sp \in {Ascending(fdr_p)} :
           /\ \A k \in 1..Len(fdr_p) : \A r \in 1..Len(fdr_p) :
                 sp[r] = fdr_p[k]
                    => /\ \E j \in r..Len(fdr_p) : FracEq(fdr_q[k], BhTerm(sp, j))
                       /\ \A j \in r..Len(fdr_p) : FracLe(fdr_q[k], BhTerm(sp, j))
           /\ fdr_p = <<4, 3, 2, 1>>
                 => \A k \in 1..4 : FracEq(fdr_q[k], [num |-> 4, den |-> 1])

\* p-values not in order, with two equal ones, and a q below N * p
C15_Witness ==
    /\ fdr_pc = "done"
    /\ Len(fdr_p) = MaxPvals
    /\ fdr_p[1] > fdr_p[2]
    /\ fdr_p[2] = fdr_p[3]
    /\ fdr_p[4] > 0
    /\ \E k \in 1..Len(fdr_p) : fdr_q[k].num < Len(fdr_p) * fdr_p[k] * fdr_q[k].den

(***************************************************************************)
(* Utils: robust_sd (utils/src/lib.rs).  Divisors are in units of 1e-6.    *)
(***************************************************************************)
MaxSdN == 230        \* n in 0..MaxSdN

\* SD_TAB, in units of 1e-3
SD_TAB ==
    <<990, 1144, 1206, 1239, 1260, 1274, 1284, 1292, 1298, 1303, 1307, 1311, 1313,
      1316, 1318, 1320, 1322, 1323, 1324, 1326, 1327, 1328, 1329, 1330, 1330, 1331,
      1332, 1332, 1333, 1333, 1334, 1334, 1335, 1335, 1336, 1336, 1336, 1337, 1337,
      1337, 1338, 1338, 1338, 1338, 1339, 1339, 1339, 1339, 1339, 1340>>

\* 2.0 * qnorm((0.75 * n - 0.125) / (n + 0.25)) for n = 202, 203, ...,
\* in units of 1e-6 (rounded to the nearest)
TwoQnormTab ==
    <<1339271, 1339319, 1339366, 1339412, 1339459, 1339505, 1339550, 1339595,
      1339640, 1339684, 1339728, 1339771, 1339814, 1339856, 1339898, 1339940,
      1339981, 1340022, 1340063, 1340103, 1340143, 1340183, 1340222, 1340261,
      1340299, 1340337, 1340375, 1340413, 1340450, 1340487, 1340523, 1340559,
      1340595, 1340631, 1340666, 1340701, 1340736, 1340770, 1340804, 1340838>>

two_qnorm(n) == TwoQnormTab[n - 201]

\* Mutant of sd_q: n >> 2
sd_q_of_n(n) == n \div 4

\* let q = (n - 1) >> 2
sd_q(n) == (n - 1) \div 4

\* SD_TAB.get(q - 1): is there such an entry
sd_tab_has(q) == q - 1 >= 0 /\ q - 1 < Len(SD_TAB)

SdIqrs == {0, 1, 3}

SdInit ==
    /\ EarlyIdle
    /\ LaterIdleExcept("sd")
    /\ sd_iqr \in SdIqrs
    /\ sd_n \in 0..MaxSdN
    /\ sd_pc = "call"
    /\ sd_out = [some |-> FALSE, num |-> 0, z |-> 1]

sd_frame == UNCHANGED early_vars /\ LaterFrame("sd")

\* n <= 4: None
SdNone ==
    /\ sd_pc = "call"
    /\ ~(sd_n > 4)
    /\ sd_out' = [some |-> FALSE, num |-> 0, z |-> 1]
    /\ sd_pc' = "done"
    /\ UNCHANGED <<sd_iqr, sd_n>>
    /\ sd_frame

\* n > 4 and SD_TAB.get(q - 1) is Some(z): Some(iqr / z)
SdFromTable ==
    /\ sd_pc = "call"
    /\ sd_n > 4
    /\ sd_tab_has(sd_q(sd_n))
    /\ sd_out' = [some |-> TRUE, num |-> sd_iqr, z |-> SD_TAB[sd_q(sd_n)] * 1000]
    /\ sd_pc' = "done"
    /\ UNCHANGED <<sd_iqr, sd_n>>
    /\ sd_frame

\* n > 4 and SD_TAB.get(q - 1) is None: Some(iqr / max(2 qnorm(..), zmax))
SdFallback ==
    /\ sd_pc = "call"
    /\ sd_n > 4
    /\ ~sd_tab_has(sd_q(sd_n))
    /\ sd_out' = [some |-> TRUE, num |-> sd_iqr,
                  z |-> MaxOf({two_qnorm(sd_n), SD_TAB[Len(SD_TAB)] * 1000})]
    /\ sd_pc' = "done"
    /\ UNCHANGED <<sd_iqr, sd_n>>
    /\ sd_frame

SdNext ==
    \/ SdNone
    \/ SdFromTable
    \/ SdFallback

SdSpec == SdInit /\ [][SdNext]_vars

\* C16: robust_sd is undefined for n <= 4; for 5 <= n <= 201 the IQR is
\* divided by entry floor((n - 1) / 4) of the table (0.990 for n = 5,
\* 1.144 for n = 9); for n > 201 it is divided by
\* max(last entry, 2 qnorm((0.75 n - 0.125) / (n + 0.25))).
C16_RobustSdDivisor ==
    sd_pc = "done"
        => /\ sd_n <= 4 => ~sd_out.some
           /\ (5 <= sd_n /\ sd_n <= 201)
                 => /\ sd_out.some
                    /\ sd_out.num = sd_iqr
                    /\ sd_out.z = SD_TAB[(sd_n - 1) \div 4] * 1000
           /\ sd_n = 5 => sd_out.z = 990000
           /\ sd_n = 9 => sd_out.z = 1144000
           /\ sd_n > 201
                 => /\ sd_out.some
                    /\ sd_out.num = sd_iqr
                    /\ sd_out.z >= 1340000
                    /\ sd_out.z >= two_qnorm(sd_n)
                    /\ sd_out.z \in {1340000, two_qnorm(sd_n)}

\* an n above 201 whose 2 qnorm(..) is above the last entry of the table
C16_Witness ==
    /\ sd_pc = "done"
    /\ sd_out.some
    /\ sd_iqr > 0
    /\ sd_n > 201
    /\ sd_out.z = two_qnorm(sd_n)
    /\ sd_out.z > 1340000

(***************************************************************************)
(* lb_region_test: process_data (lb_region_test/src/process.rs).           *)
(* Reading a file is taken to succeed; a sample has data for a region or   *)
(* has none (no file for the contig, or read_region_data gives None).      *)
(***************************************************************************)
MaxRegions == 2      \* 1..MaxRegions regions

MaxControls == 5     \* 0..MaxControls control samples with data for a region

\* the sorted vector v of the averages of l control samples; the average
\* of the k-th smallest is taken to be k
control_averages(l) == [k \in 1..l |-> k]

PdInit ==
    /\ EarlyIdle
    /\ LaterIdleExcept("pd")
    /\ \E nr \in 1..MaxRegions :
          /\ pd_ctrl \in [1..nr -> 0..MaxControls]
          /\ pd_test \in [1..nr -> BOOLEAN]
    /\ pd_r = 1
    /\ pd_reg_data = <<>>
    /\ pd_warned = {}
    /\ pd_rows = <<>>
    /\ pd_pc = "controls"

pd_frame == UNCHANGED early_vars /\ LaterFrame("pd")

\* lines 140-154: v is empty and v[l >> 2] is read: index out of bounds
PdRegionPanics ==
    /\ pd_pc = "controls"
    /\ pd_r <= Len(pd_ctrl)
    /\ \E v \in {control_averages(pd_ctrl[pd_r])} :
          /\ ~((Len(v) \div 4) < Len(v))
          /\ pd_pc' = "panic"
    /\ UNCHANGED <<pd_ctrl, pd_test, pd_r, pd_reg_data, pd_warned, pd_rows>>
    /\ pd_frame

\* lines 140-166: one region of the first loop, v not empty
PdRegion ==
    /\ pd_pc = "controls"
    /\ pd_r <= Len(pd_ctrl)
    /\ \E v \in {control_averages(pd_ctrl[pd_r])} :
          /\ (Len(v) \div 4) < Len(v)
          /\ IF Len(v) > 4
                THEN /\ pd_reg_data' = Append(pd_reg_data,
                            [region |-> pd_r, n |-> Len(v),
                             q1 |-> v[(Len(v) \div 4) + 1],
                             q2 |-> v[(Len(v) \div 2) + 1],
                             q3 |-> v[((3 * Len(v)) \div 4) + 1]])
                     /\ UNCHANGED pd_warned
                ELSE /\ pd_warned' = pd_warned \cup {pd_r}
                     /\ UNCHANGED pd_reg_data
    /\ pd_r' = pd_r + 1
    /\ UNCHANGED <<pd_ctrl, pd_test, pd_rows, pd_pc>>
    /\ pd_frame

\* lines 169-219: the test sample, the p-values, the rows written, Ok(())
PdTests ==
    /\ pd_pc = "controls"
    /\ pd_r > Len(pd_ctrl)
    /\ pd_rows' = SelectSeq([i \in 1..Len(pd_reg_data) |-> pd_reg_data[i].region],
                            LAMBDA r : pd_test[r])
    /\ pd_pc' = "done"
    /\ UNCHANGED <<pd_ctrl, pd_test, pd_r, pd_reg_data, pd_warned>>
    /\ pd_frame

PdNext ==
    \/ PdRegionPanics
    \/ PdRegion
    \/ PdTests

PdSpec == PdInit /\ [][PdNext]_vars

\* C17: a region for which no control sample has data is skipped with a
\* warning: process_data does not fail, writes no row for the region and
\* goes on with the other regions.
C17_EmptyControlsSkipped ==
    /\ pd_pc # "panic"
    /\ pd_pc = "done"
          => \A r \in 1..Len(pd_ctrl) :
                pd_ctrl[r] = 0
                   => /\ r \in pd_warned
                      /\ \A i \in 1..Len(pd_rows) : pd_rows[i] # r

(***************************************************************************)
(* lb_norm: process_samples for one contig (lb_norm/src/process.rs) with   *)
(* output_sample_contig_data (lb_norm/src/io.rs).  Reading and writing a   *)
(* file is taken to succeed; a file holds at most one line per bin.        *)
(***************************************************************************)
MaxNormSamples == 2  \* 1..MaxNormSamples samples

MaxBins == 2         \* bins 1..MaxBins

NormVals == {0, 1, 3}

NormBins == 1..MaxBins

\* the contig file of a sample: bin -> copy number, None for no line
NormFiles == [NormBins -> NormVals \cup {None}]

NormConfigs ==
    UNION {[control : [1..n -> BOOLEAN], output : [1..n -> BOOLEAN],
            data : [1..n -> NormFiles]] : n \in 1..MaxNormSamples}

NoMed == [q2 |-> None, iqr |-> None]

\* the elements of a sequence of numbers that are not None, in order
Present(vs) == SelectSeq(vs, LAMBDA x : x # None)

\* bt[i] after its sort: the values the control samples have for bin i
bt_sorted(c, i) ==
    Ascending(Present([s \in DOMAIN c.control |->
                          IF c.control[s] THEN c.data[s][i] ELSE None]))

\* (q2, q3 - q1) of a sorted vector v
med_entry(v) ==
    [q2 |-> v[(Len(v) \div 2) + 1],
     iqr |-> v[((3 * Len(v)) \div 4) + 1] - v[(Len(v) \div 4) + 1]]

\* med: an entry for every bin of bt
med_of(c) ==
    [i \in NormBins |-> IF Len(bt_sorted(c, i)) > 0
                            THEN med_entry(bt_sorted(c, i)) ELSE NoMed]

\* the vector iqr after its sort
iqr_sorted(med) ==
    Ascending(Present([i \in NormBins |-> med[i].iqr]))

\* (l * 0.005) as usize and (l * 0.995) as usize, 0-based
low_index(l) == (l * 5) \div 1000

high_index(l) == (l * 995) \div 1000

\* output_sample_contig_data: the rows written for sample s
output_rows(c, s, med, low, high) ==
    {[sample |-> s, bin |-> x, y |-> 2 + c.data[s][x] - med[x].q2] :
        x \in {x \in NormBins : /\ c.data[s][x] # None
                                /\ med[x] # NoMed
                                /\ med[x].iqr > low
                                /\ med[x].iqr < high}}

NormInit ==
    /\ EarlyIdle
    /\ LaterIdleExcept("norm")
    /\ nm_cfg \in NormConfigs
    /\ nm_med = [i \in NormBins |-> NoMed]
    /\ nm_low = 0
    /\ nm_high = 0
    /\ nm_s = 1
    /\ nm_rows = {}
    /\ nm_pc = "median"

nm_frame == UNCHANGED early_vars /\ LaterFrame("norm")

\* process.rs 19-52, no bin in bt: iqr is empty and iqr[0] is read
NormMedianPanics ==
    /\ nm_pc = "median"
    /\ \E med \in {med_of(nm_cfg)} : \E iqr \in {iqr_sorted(med)} :
          /\ ~(low_index(Len(iqr)) < Len(iqr))
          /\ nm_pc' = "panic"
    /\ UNCHANGED <<nm_cfg, nm_med, nm_low, nm_high, nm_s, nm_rows>>
    /\ nm_frame

\* process.rs 19-52: the control data, med, low and high
NormMedian ==
    /\ nm_pc = "median"
    /\ \E med \in {med_of(nm_cfg)} : \E iqr \in {iqr_sorted(med)} :
          /\ low_index(Len(iqr)) < Len(iqr)
          /\ nm_med' = med
          /\ nm_low' = iqr[low_index(Len(iqr)) + 1]
          /\ nm_high' = iqr[high_index(Len(iqr)) + 1]
    /\ nm_pc' = "output"
    /\ UNCHANGED <<nm_cfg, nm_s, nm_rows>>
    /\ nm_frame

\* process.rs 55-63: one sample of the output loop
NormOutput ==
    /\ nm_pc = "output"
    /\ nm_s <= Len(nm_cfg.control)
    /\ nm_rows' = IF nm_cfg.output[nm_s]
                     THEN nm_rows \cup output_rows(nm_cfg, nm_s, nm_med, nm_low, nm_high)
                     ELSE nm_rows
    /\ nm_s' = nm_s + 1
    /\ UNCHANGED <<nm_cfg, nm_med, nm_low, nm_high, nm_pc>>
    /\ nm_frame

\* process.rs 64-65: Ok(())
NormReturn ==
    /\ nm_pc = "output"
    /\ nm_s > Len(nm_cfg.control)
    /\ nm_pc' = "done"
    /\ UNCHANGED <<nm_cfg, nm_med, nm_low, nm_high, nm_s, nm_rows>>
    /\ nm_frame

NormNext ==
    \/ NormMedianPanics
    \/ NormMedian
    \/ NormOutput
    \/ NormReturn

NormSpec == NormInit /\ [][NormNext]_vars

\* the one control sample is the one output sample, and its file has a line
SingleControlIsOutput ==
    /\ \E s \in DOMAIN nm_cfg.control :
          /\ nm_cfg.control[s] /\ nm_cfg.output[s]
          /\ \E x \in NormBins : nm_cfg.data[s][x] # None
          /\ \A t \in DOMAIN nm_cfg.control \ {s} :
                ~nm_cfg.control[t] /\ ~nm_cfg.output[t]

\* C18: with one control sample that is also the one output sample, every
\* bin of that sample is written, each with the value 2.
C18_SingleControlAllTwo ==
    (SingleControlIsOutput /\ nm_pc \in {"done", "panic"})
        => /\ nm_pc = "done"
           /\ \A s \in DOMAIN nm_cfg.control : \A x \in NormBins :
                 (nm_cfg.output[s] /\ nm_cfg.data[s][x] # None)
                    => [sample |-> s, bin |-> x, y |-> 2] \in nm_rows

(***************************************************************************)
(* GC smoother: smooth (src/normalize.rs).  The coverage values and the    *)
(* regression coefficients are left out: an observation vector is its      *)
(* length, a fit is its centre, a prediction is the fit it is taken from.  *)
(* Indices are 0-based as in the source.                                   *)
(***************************************************************************)
MaxSmClasses == 5    \* GC classes 0..MaxSmClasses-1

MaxObs == 3          \* 0..MaxObs observations of a class

REGION_SIZE == 31

SmClasses == 0..(MaxSmClasses - 1)

\* Obs::new: None for an empty vector, Some for every other
Obs_new(ix, n) == IF n = 0 THEN <<>> ELSE <<[n |-> n, ix |-> ix]>>

\* bc.iter_mut().enumerate().flat_map(Obs::new).collect(), classes from..
RECURSIVE collect_obs(_, _)
collect_obs(bc, from) ==
    IF from \notin DOMAIN bc THEN <<>>
    ELSE Obs_new(from, bc[from]) \o collect_obs(bc, from + 1)

AbsDiff(a, b) == IF a >= b THEN a - b ELSE b - a

\* fit_local_regression: window size d for the centre obs[i] in obs[left..=right]
win_size(obs, left, right, i) ==
    MaxOf({obs[right + 1].ix - obs[i + 1].ix, obs[i + 1].ix - obs[left + 1].ix})

\* Accum::accum: the observations of the window with a weight above zero
\* (the tricube kernel is zero at distance d)
weighted(obs, left, right, i) ==
    {k \in left..right :
        AbsDiff(obs[k + 1].ix, obs[i + 1].ix) < win_size(obs, left, right, i)}

\* right - i - 1 < i + 1 - left && right < l - 1, where right - i - 1 does
\* not underflow
window_moves(left, right, i, l) ==
    (right - i - 1 < i + 1 - left) /\ (right < l - 1)

\* the prediction loop over the pairs of consecutive fits
pred_of(fit) ==
    [x \in SmClasses |->
        IF x = fit[1].x THEN fit[1].x
        ELSE IF \E j \in 1..(Len(fit) - 1) : fit[j].x < x /\ x <= fit[j + 1].x
        THEN LET j == CHOOSE j \in 1..(Len(fit) - 1) : fit[j].x < x /\ x <= fit[j + 1].x
             IN  IF fit[j + 1].x - x > x - fit[j].x THEN fit[j].x ELSE fit[j + 1].x
        ELSE None]

SmoothInit ==
    /\ EarlyIdle
    /\ LaterIdleExcept("smooth")
    /\ sm_bc \in [SmClasses -> 0..MaxObs]
    /\ sm_obs = <<>>
    /\ sm_left = 0
    /\ sm_right = 0
    /\ sm_i = 0
    /\ sm_fit = <<>>
    /\ sm_pred = [x \in SmClasses |-> None]
    /\ sm_pc = "start"

sm_frame == UNCHANGED early_vars /\ LaterFrame("smooth")

\* lines 174-190: obs, and assert!(region_size > 2) fails
SmoothAssertFails ==
    /\ sm_pc = "start"
    /\ \E obs \in {collect_obs(sm_bc, 0)} :
          /\ ~(MinOf(Len(obs), REGION_SIZE) > 2)
          /\ sm_obs' = obs
    /\ sm_pc' = "panic"
    /\ UNCHANGED <<sm_bc, sm_left, sm_right, sm_i, sm_fit, sm_pred>>
    /\ sm_frame

\* lines 174-198: obs, left, right
SmoothStart ==
    /\ sm_pc = "start"
    /\ \E obs \in {collect_obs(sm_bc, 0)} :
          /\ MinOf(Len(obs), REGION_SIZE) > 2
          /\ sm_obs' = obs
          /\ sm_right' = MinOf(Len(obs), REGION_SIZE) - 1
    /\ sm_left' = 0
    /\ sm_i' = 0
    /\ sm_pc' = "fit"
    /\ UNCHANGED <<sm_bc, sm_fit, sm_pred>>
    /\ sm_frame

\* Accum::chol, assert!(z > 0.0, "Matrix not PD"): with one weighted
\* observation the second pivot is 0; with two the third pivot is 0 but
\* for rounding, and the assertion may fail or pass
SmoothNotPD ==
    /\ sm_pc = "fit"
    /\ sm_i < Len(sm_obs)
    /\ Cardinality(weighted(sm_obs, sm_left, sm_right, sm_i)) <= 2
    /\ sm_pc' = "panic"
    /\ UNCHANGED <<sm_bc, sm_obs, sm_left, sm_right, sm_i, sm_fit, sm_pred>>
    /\ sm_frame

\* lines 199-206, one turn of the loop: a fit centred at obs[i], then the
\* window.  When right - i - 1 underflows the turn panics in a build with
\* overflow checks and leaves the window where it is in one without.
SmoothFit ==
    /\ sm_pc = "fit"
    /\ sm_i < Len(sm_obs)
    /\ Cardinality(weighted(sm_obs, sm_left, sm_right, sm_i)) >= 2
    /\ sm_fit' = Append(sm_fit, [x |-> sm_obs[sm_i + 1].ix])
    /\ IF sm_right - sm_i - 1 < 0
          THEN \/ sm_pc' = "panic" /\ UNCHANGED <<sm_left, sm_right, sm_i>>
               \/ sm_pc' = "fit" /\ sm_i' = sm_i + 1 /\ UNCHANGED <<sm_left, sm_right>>
          ELSE /\ sm_pc' = "fit"
               /\ sm_i' = sm_i + 1
               /\ IF window_moves(sm_left, sm_right, sm_i, Len(sm_obs))
                     THEN sm_left' = sm_left + 1 /\ sm_right' = sm_right + 1
                     ELSE UNCHANGED <<sm_left, sm_right>>
    /\ UNCHANGED <<sm_bc, sm_obs, sm_pred>>
    /\ sm_frame

\* lines 208-219: the predictions, pred returned
SmoothPred ==
    /\ sm_pc = "fit"
    /\ sm_i = Len(sm_obs)
    /\ sm_pred' = pred_of(sm_fit)
    /\ sm_pc' = "done"
    /\ UNCHANGED <<sm_bc, sm_obs, sm_left, sm_right, sm_i, sm_fit>>
    /\ sm_frame

SmoothNext ==
    \/ SmoothAssertFails
    \/ SmoothStart
    \/ SmoothNotPD
    \/ SmoothFit
    \/ SmoothPred

SmoothSpec == SmoothInit /\ [][SmoothNext]_vars

\* C19: a GC class with fewer than 3 observations is never the centre of a
\* local fit; the centres are exactly the classes with 3 observations or
\* more, and the prediction of a class with 1 or 2 observations is taken
\* from a neighbouring fit.
C19_CentresHaveThreeObs ==
    /\ \A k \in 1..Len(sm_fit) : sm_bc[sm_fit[k].x] >= 3
    /\ sm_pc = "done"
          => /\ {sm_fit[k].x : k \in 1..Len(sm_fit)} = {x \in SmClasses : sm_bc[x] >= 3}
             /\ \A x \in SmClasses :
                   sm_bc[x] \in {1, 2} => sm_pred[x] \notin {None, x}

(***************************************************************************)
(* One worker, statement by statement: process_task (src/process.rs).      *)
(* The controller is any sequence of jobs; an Hts handle is open from      *)
(* open_input until the value holding it is dropped.                       *)
(***************************************************************************)
MaxWorkerSamples == 3   \* samples 1..MaxWorkerSamples

MaxWorkerJobs == 4      \* the worker is followed for MaxWorkerJobs jobs

WorkerSamples == 1..MaxWorkerSamples

\* the jobs the controller may send
WorkerJobs ==
    {MkJob(t, i, 0, {}) : t \in {"ReadData", "NormalizeSample", "OutputSampleCtg"},
                          i \in WorkerSamples}
        \cup {MkJob("Wait", 0, 0, {})}

\* sample_idx.map(|x| x != i).unwrap_or(true)
is_new_sample(sidx, i) == IF sidx = None THEN TRUE ELSE sidx # i

WorkerInit ==
    /\ EarlyIdle
    /\ LaterIdleExcept("worker")
    /\ pt_sample_idx = None
    /\ pt_hts = None
    /\ pt_h = None
    /\ pt_open = {}
    /\ pt_job = NoJob
    /\ pt_jobs = 0
    /\ pt_opens = 0
    /\ pt_pc = "recv"

pt_frame == UNCHANGED early_vars /\ LaterFrame("worker")

\* lines 32-38: a ReadData job is received
WorkerRecvRead ==
    /\ pt_pc = "recv"
    /\ pt_jobs < MaxWorkerJobs
    /\ \E job \in {j \in WorkerJobs : j.type = "ReadData"} :
          /\ pt_job' = job
          /\ pt_pc' = IF is_new_sample(pt_sample_idx, job.sample) THEN "open" ELSE "read"
    /\ pt_jobs' = pt_jobs + 1
    /\ UNCHANGED <<pt_sample_idx, pt_hts, pt_h, pt_open, pt_opens>>
    /\ pt_frame

\* lines 32-36, 54-75: a job of another kind is received, done and answered
WorkerRecvOther ==
    /\ pt_pc = "recv"
    /\ pt_jobs < MaxWorkerJobs
    /\ \E job \in {j \in WorkerJobs : j.type # "ReadData"} : pt_job' = job
    /\ pt_jobs' = pt_jobs + 1
    /\ UNCHANGED <<pt_sample_idx, pt_hts, pt_h, pt_open, pt_opens, pt_pc>>
    /\ pt_frame

\* lines 40-42: open_input returns a handle on the file of the job's sample
WorkerOpen ==
    /\ pt_pc = "open"
    /\ pt_h' = pt_job.sample
    /\ pt_open' = pt_open \cup {pt_job.sample}
    /\ pt_opens' = pt_opens + 1
    /\ pt_pc' = "assign"
    /\ UNCHANGED <<pt_sample_idx, pt_hts, pt_job, pt_jobs>>
    /\ pt_frame

\* line 42: open_input fails; the function returns the error and its
\* locals are dropped
WorkerOpenFails ==
    /\ pt_pc = "open"
    /\ pt_opens' = pt_opens + 1
    /\ pt_hts' = None
    /\ pt_open' = {}
    /\ pt_pc' = "exit"
    /\ UNCHANGED <<pt_sample_idx, pt_h, pt_job, pt_jobs>>
    /\ pt_frame

\* lines 43-44: sample_idx = Some(i); hts = Some(h): the handle hts held
\* is dropped by the assignment
WorkerAssign ==
    /\ pt_pc = "assign"
    /\ pt_sample_idx' = pt_job.sample
    /\ pt_hts' = pt_h
    /\ pt_h' = None
    /\ pt_open' = pt_open \ ({pt_hts} \ {pt_h})
    /\ pt_pc' = "read"
    /\ UNCHANGED <<pt_job, pt_jobs, pt_opens>>
    /\ pt_frame

\* lines 46-53, 70-75: read_coverage_data on hts, the result sent
WorkerRead ==
    /\ pt_pc = "read"
    /\ pt_pc' = "recv"
    /\ UNCHANGED <<pt_sample_idx, pt_hts, pt_h, pt_open, pt_job, pt_jobs, pt_opens>>
    /\ pt_frame

\* line 52: read_coverage_data fails; the function returns the error
WorkerReadFails ==
    /\ pt_pc = "read"
    /\ pt_hts' = None
    /\ pt_open' = {}
    /\ pt_pc' = "exit"
    /\ UNCHANGED <<pt_sample_idx, pt_h, pt_job, pt_jobs, pt_opens>>
    /\ pt_frame

\* lines 32, 77-78: None is received; Ok(()) and the locals are dropped
WorkerRecvNone ==
    /\ pt_pc = "recv"
    /\ pt_job' = NoJob
    /\ pt_hts' = None
    /\ pt_open' = {}
    /\ pt_pc' = "exit"
    /\ UNCHANGED <<pt_sample_idx, pt_h, pt_jobs, pt_opens>>
    /\ pt_frame

WorkerNext ==
    \/ WorkerRecvRead
    \/ WorkerRecvOther
    \/ WorkerOpen
    \/ WorkerOpenFails
    \/ WorkerAssign
    \/ WorkerRead
    \/ WorkerReadFails
    \/ WorkerRecvNone

WorkerSpec == WorkerInit /\ [][WorkerNext]_vars

\* C20: a worker has at most one alignment file open at any time: for a
\* ReadData job on another sample the handle held is closed before the new
\* file is opened, and for a job on the same sample no file is opened.
C20_OneHandleAtATime ==
    /\ Cardinality(pt_open) <= 1
    /\ pt_pc = "assign" => pt_open = {pt_job.sample}
    /\ (pt_pc = "read" /\ pt_job.type = "ReadData") => pt_open = {pt_job.sample}

\* C20, second part: no file is opened for a ReadData job on the sample of
\* the handle held.
C20_SameSampleNoOpen ==
    [][(pt_pc = "recv" /\ pt_pc' = "read" /\ pt_job'.sample = pt_sample_idx)
          => (pt_opens' = pt_opens /\ pt_open' = pt_open)]_vars

(***************************************************************************)
(* Scheduler: further properties of Spec.                                  *)
(***************************************************************************)
\* C21: the coverage map normalize_sample returns has the contigs of the
\* RawCounts it was given (one vector of (raw, normalised) pairs per contig
\* of the input): a NormalizedCounts result on its way to the controller
\* holds the contigs read for its sample.
C21_NormalizeKeepsContigs ==
    \A k \in 1..Len(ctrl_q) :
        ctrl_q[k].prev_results.type = "NormalizedCounts"
            => ctrl_q[k].prev_results.data = merged[ctrl_q[k].prev_results.sample]

\* The scheduler with one task more than in Spec (safety only)
WideTasks == 3

WideConfigs ==
    UNION {UNION {
        {[n_tasks |-> WideTasks, n_readers |-> r, ns |-> ns, nc |-> nc, indexed |-> ix,
          fault |-> f] :
            r \in 1..WideTasks, ix \in [1..ns -> BOOLEAN], f \in Faults(ns, nc)}
        : nc \in 1..MaxCtgs} : ns \in 1..MaxSamples}

WideInit ==
    /\ cfg \in WideConfigs
    /\ track = [r |-> 0, n |-> 0]
    /\ sample_vec = [s \in Samples |-> InputFile_new]
    /\ sample_idx = 0
    /\ sample_data = [s \in Samples |-> NoData]
    /\ pending_norm = <<>>
    /\ pending_output = <<>>
    /\ ongoing_output = NoOutput
    /\ ctrl_pc = "run"
    /\ ctrl_q = <<>>
    /\ inbox = [w \in Tasks |-> <<>>]
    /\ pc = [w \in Tasks |-> "start"]
    /\ w_sample = [w \in Tasks |-> 0]
    /\ ret = "none"
    /\ n_read_sent = [s \in Samples |-> [c \in 0..cfg.nc |-> 0]]
    /\ n_norm_sent = [s \in Samples |-> 0]
    /\ n_out_sent = 0
    /\ merged = [s \in Samples |-> {}]
    /\ ReaderIdle
    /\ GcIdle
    /\ LaterIdleExcept("none")

WideNext ==
    \/ ControllerStep
    \/ ControllerExit
    \/ ProcessSamplesReturn
    \/ \E w \in 1..WideTasks : TaskNext(w)

WideSpec == WideInit /\ [][WideNext]_vars

\* Input f of sample s still has a read that has not been issued
HasUnissuedRead(f, s) ==
    /\ ~f.finished
    /\ ~ProbeFails(s)
    /\ \/ f.indexed \in {"None", "false"}
       \/ f.indexed = "true" /\ f.ctg_iter < cfg.nc

\* The request at the head of the controller's inbox reaches the new-read
\* step: reads are allowed and neither the worker's own sample, nor the
\* outputs, nor the normalizations gave a job.  sv1 is the sample vector as
\* that step finds it.
AtNewReadStep(jr, tr, st, sv1) ==
    /\ new_reads_allowed(tr)
    /\ jr.sample_idx # 0 => next_job(sample_vec[jr.sample_idx], jr.sample_idx).job = NoJob
    /\ select_output(ongoing_output, st.po).job = NoJob
    /\ select_norm(st.pn).job = NoJob
    /\ sv1 = IF jr.sample_idx # 0
                THEN [sample_vec EXCEPT ![jr.sample_idx] =
                         next_job(sample_vec[jr.sample_idx], jr.sample_idx).file]
                ELSE sample_vec

\* C22: a request that reaches the new-read step while fewer than R reads
\* are in flight and some sample still has a read that has not been issued
\* is answered with a ReadData job, never with Wait or None.
C22_NewReadIssued ==
    (ctrl_pc = "run" /\ ctrl_q # <<>> /\ recv_assert_ok(track, Head(ctrl_q)))
        => \E jr \in {Head(ctrl_q)} :
           \E tr \in {update_at_recv(track, jr)},
              st \in {store_results(jr, sample_data, pending_norm, pending_output)} :
           \E ch \in {choose_job(jr, tr, sample_vec, sample_idx, ongoing_output, st.po, st.pn)} :
              \A sv1 \in {ch.sv, sample_vec} \cup
                         {[sample_vec EXCEPT ![s] = next_job(sample_vec[s], s).file] : s \in Samples} :
                 (/\ AtNewReadStep(jr, tr, st, sv1)
                  /\ ~ch.err
                  /\ \E s \in Samples : HasUnissuedRead(sv1[s], s))
                     => ch.job.type = "ReadData"

(***************************************************************************)
(* lb_region_test: read_region_data (lb_region_test/src/io.rs).  Every     *)
(* line of the file has its three fields and parses.                       *)
(***************************************************************************)
MaxTrackPos == 6     \* positions and range ends in 1..MaxTrackPos

MaxTrackLines == 3   \* a track file has 0..MaxTrackLines lines

TrackVals == {1, 2}

\* track files: positions strictly increasing
TrackFiles ==
    UNION {{f \in [1..n -> [x : 1..MaxTrackPos, z : TrackVals]] :
               \A i \in 1..(n - 1) : f[i].x < f[i + 1].x} : n \in 0..MaxTrackLines}

\* the ranges of a region: one or two, sorted, apart
TrackRanges ==
    {<<<<a, b>>>> : a \in 1..MaxTrackPos, b \in 1..MaxTrackPos}
        \cup {<<<<a, b>>, <<c, d>>>> :
                a \in 1..MaxTrackPos, b \in 1..MaxTrackPos,
                c \in 1..MaxTrackPos, d \in 1..MaxTrackPos}

ValidTrackRanges ==
    {r \in TrackRanges :
        /\ \A i \in 1..Len(r) : r[i][1] <= r[i][2]
        /\ \A i \in 1..(Len(r) - 1) : r[i][2] < r[i + 1][1]}

\* v.windows(2).map(|x| x[1].0 - x[0].0).min().unwrap_or(1)
bin_size(v) ==
    IF Len(v) < 2 THEN 1
    ELSE CHOOSE d \in {v[i + 1].x - v[i].x : i \in 1..(Len(v) - 1)} :
            \A i \in 1..(Len(v) - 1) : d <= v[i + 1].x - v[i].x

\* x - (bin_size >> 1) is below zero for some x of v
lo_underflows(v) == \E i \in 1..Len(v) : v[i].x < bin_size(v) \div 2

\* ranges.iter().any(|(a, b)| hi > *a && lo <= *b) for the bin of x with
\* spacing bs; a lo that wrapped around is above every b
bin_in_ranges(x, bs, ranges) ==
    /\ x >= bs \div 2
    /\ \E k \in 1..Len(ranges) :
          x + (bs \div 2) > ranges[k][1] /\ x - (bs \div 2) <= ranges[k][2]

RECURSIVE SumZ(_, _, _)
\* s and n over the lines of v, with spacing bs: [s, n]
SumZ(v, bs, ranges) ==
    IF v = <<>> THEN [s |-> 0, n |-> 0]
    ELSE LET r == SumZ(Tail(v), bs, ranges)
         IN  IF bin_in_ranges(Head(v).x, bs, ranges)
                THEN [s |-> r.s + Head(v).z, n |-> r.n + 1]
                ELSE r

\* lines 48-63: the average over the lines of v
average(v, ranges) ==
    LET r == SumZ(v, bin_size(v), ranges)
    IN  IF r.n > 0 THEN [some |-> TRUE, s |-> r.s, n |-> r.n]
        ELSE [some |-> FALSE, s |-> 0, n |-> 0]

RegionReadInit ==
    /\ EarlyIdle
    /\ LaterIdleExcept("rr")
    /\ rr_file \in TrackFiles
    /\ rr_ranges \in ValidTrackRanges
    /\ rr_line = 0
    /\ rr_v = <<>>
    /\ rr_out = [some |-> FALSE, s |-> 0, n |-> 0]
    /\ rr_pc = "read"

rr_frame == UNCHANGED early_vars /\ LaterFrame("rr")

\* lines 23-42: one line read and pushed; the loop is left after the first
\* position beyond the end of the last range
RegionReadLine ==
    /\ rr_pc = "read"
    /\ rr_line < Len(rr_file)
    /\ rr_line' = rr_line + 1
    /\ rr_v' = Append(rr_v, rr_file[rr_line + 1])
    /\ rr_pc' = IF rr_file[rr_line + 1].x > rr_ranges[Len(rr_ranges)][2]
                   THEN "sum" ELSE "read"
    /\ UNCHANGED <<rr_file, rr_ranges, rr_out>>
    /\ rr_frame

\* line 23: end of file
RegionReadEof ==
    /\ rr_pc = "read"
    /\ rr_line = Len(rr_file)
    /\ rr_pc' = "sum"
    /\ UNCHANGED <<rr_file, rr_ranges, rr_line, rr_v, rr_out>>
    /\ rr_frame

\* lines 44-63: the spacing, the sum, the result
RegionReadSum ==
    /\ rr_pc = "sum"
    /\ rr_out' = average(rr_v, rr_ranges)
    /\ rr_pc' = "done"
    /\ UNCHANGED <<rr_file, rr_ranges, rr_line, rr_v>>
    /\ rr_frame

\* line 55: x - (bin_size >> 1) underflows; a build with overflow checks
\* panics (one without goes on with the wrapped value, RegionReadSum)
RegionReadPanics ==
    /\ rr_pc = "sum"
    /\ lo_underflows(rr_v)
    /\ rr_pc' = "panic"
    /\ UNCHANGED <<rr_file, rr_ranges, rr_line, rr_v, rr_out>>
    /\ rr_frame

RegionReadNext ==
    \/ RegionReadLine
    \/ RegionReadEof
    \/ RegionReadSum
    \/ RegionReadPanics

RegionReadSpec == RegionReadInit /\ [][RegionReadNext]_vars

\* C23: the result is the average over the bins that overlap a range, the
\* bin spacing being the smallest distance between successive positions of
\* the whole file: stopping at the first position beyond the last range
\* gives what reading the entire file gives.
C23_StopEarlySameResult ==
    rr_pc = "done"
        => \E whole \in {average(rr_file, rr_ranges)} :
              /\ rr_out.some = whole.some
              /\ rr_out.s * whole.n = whole.s * rr_out.n

(***************************************************************************)
(* Reader: further properties of ReaderSpec.                               *)
(***************************************************************************)
\* C24: for every accepted record, one that runs past the end of the contig
\* included, the bin index of every position counted is below the length
\* of cov, and the indexing never goes out of range.
C24_CountsWithinContig ==
    (passed /\ rec # NoRec)
        => /\ r_pc # "panicked"
           /\ \A p \in hits : p \div r_cfg.block_size < n_bins(r_cfg)

(***************************************************************************)
(* Scheduler: the controller's output bookkeeping.  The controller takes   *)
(* whatever NormCov a NormalizedCounts result carries; OutSpec runs it     *)
(* with the map normalize_sample returns as coded (no entry) and with a    *)
(* map holding an entry for every contig read (cfg.norm).                  *)
(***************************************************************************)
OutConfigs ==
    {[n_tasks |-> c.n_tasks, n_readers |-> c.n_readers, ns |-> c.ns, nc |-> c.nc,
      indexed |-> c.indexed, fault |-> c.fault, norm |-> m] :
        c \in {c \in Configs : c.n_readers <= c.n_tasks}, m \in {"empty", "full"}}

\* Keys of the NormCov of a NormalizedCounts result
norm_cov_keys(rc) == IF cfg.norm = "full" THEN rc ELSE normalize_sample(rc)

OutInit ==
    /\ cfg \in OutConfigs
    /\ track = [r |-> 0, n |-> 0]
    /\ sample_vec = [s \in Samples |-> InputFile_new]
    /\ sample_idx = 0
    /\ sample_data = [s \in Samples |-> NoData]
    /\ pending_norm = <<>>
    /\ pending_output = <<>>
    /\ ongoing_output = NoOutput
    /\ ctrl_pc = "run"
    /\ ctrl_q = <<>>
    /\ inbox = [w \in Tasks |-> <<>>]
    /\ pc = [w \in Tasks |-> "start"]
    /\ w_sample = [w \in Tasks |-> 0]
    /\ ret = "none"
    /\ n_read_sent = [s \in Samples |-> [c \in 0..cfg.nc |-> 0]]
    /\ n_norm_sent = [s \in Samples |-> 0]
    /\ n_out_sent = 0
    /\ merged = [s \in Samples |-> {}]
    /\ ReaderIdle
    /\ GcIdle
    /\ LaterIdleExcept("none")

\* process.rs 55-63: a NormalizeSample job
TaskNormalizeOut(w) ==
    /\ w \in Tasks
    /\ pc[w] = "run"
    /\ inbox[w] # <<>>
    /\ Head(inbox[w]).type = "NormalizeSample"
    /\ LET job == Head(inbox[w])
       IN /\ inbox' = [inbox EXCEPT ![w] = Tail(@)]
          /\ send_request(w, MkCompleted("NormalizedCounts", job.sample, norm_cov_keys(job.data)),
                          w_sample[w])
    /\ UNCHANGED w_sample
    /\ ctrl_unchanged

OutTaskNext(w) ==
    \/ TaskStart(w)
    \/ TaskReadData(w)
    \/ TaskNormalizeOut(w)
    \/ TaskOutputOrWait(w)
    \/ TaskExit(w)
    \/ TaskDisconnected(w)

OutNext ==
    \/ ControllerStep
    \/ ControllerExit
    \/ ProcessSamplesReturn
    \/ \E w \in 1..MaxTasks : OutTaskNext(w)

OutSpec == OutInit /\ [][OutNext]_vars

\* the (sample, contig) entries the controller holds for output
EntriesOf(oo, po) ==
    {<<oo.sample, c>> : c \in oo.norm_cov}
        \cup UNION {{<<po[k].sample, c>> : c \in po[k].nc} : k \in 1..Len(po)}

\* the entries of the result that comes with request jr
EntriesIn(jr) ==
    IF jr.prev_results.type = "NormalizedCounts"
        THEN {<<jr.prev_results.sample, c>> : c \in jr.prev_results.data}
        ELSE {}

\* the entry of the OutputSampleCtg job the controller has just sent
EntriesIssued ==
    IF n_out_sent' = n_out_sent THEN {}
    ELSE LET j == Last(inbox'[Head(ctrl_q).task_idx]) IN {<<j.sample, j.ctg>>}

\* no NormalizedCounts result is on its way or still to be asked for
NoResultToCome ==
    /\ pending_norm = <<>>
    /\ \A w \in Tasks : ~HoldsJob(w, "NormalizeSample")
    /\ \A k \in 1..Len(ctrl_q) : ctrl_q[k].prev_results.type # "NormalizedCounts"

\* C25: at most one sample is mid-output; the output of the next pending
\* sample is started only when the ongoing one has no contig left; every
\* (sample, contig) entry of a NormalizedCounts result received is issued
\* in exactly one OutputSampleCtg job, before any worker is sent None.
C25_OutputOnceBeforeNone ==
    /\ []((ctrl_pc = "run" /\ \E w \in Tasks : NoneSentTo(w))
             => (EntriesOf(ongoing_output, pending_output) = {} /\ NoResultToCome))
    /\ [][(ctrl_pc = "run" /\ ctrl_pc' = "run" /\ ctrl_q # <<>> /\ ctrl_q' = Tail(ctrl_q))
             => /\ ongoing_output'.sample # ongoing_output.sample
                      => ongoing_output.norm_cov = {}
                /\ EntriesOf(ongoing_output, pending_output) \cap EntriesIn(Head(ctrl_q)) = {}
                /\ EntriesOf(ongoing_output', pending_output') \cup EntriesIssued
                      = EntriesOf(ongoing_output, pending_output) \cup EntriesIn(Head(ctrl_q))
                /\ EntriesOf(ongoing_output', pending_output') \cap EntriesIssued = {}]_vars

\* the contigs of one sample have been issued for output one by one while
\* another sample waits in pending_output with all of its contigs
C25_Witness ==
    /\ cfg.norm = "full"
    /\ ongoing_output.some
    /\ n_out_sent >= 2
    /\ pending_output # <<>>
    /\ Last(pending_output).sample # ongoing_output.sample
    /\ Cardinality(Last(pending_output).nc) = 2

(***************************************************************************)
(* GC smoother: further properties of SmoothSpec.                          *)
(***************************************************************************)
\* C26: whenever at least 3 GC classes have observations, the weighted
\* normal matrix of every local fit is strictly positive definite, that is,
\* at least 3 observations of the window have a weight above zero, so that
\* no fit ends in the "Matrix not PD" abort.
C26_FitsPositiveDefinite ==
    (sm_pc = "fit" /\ Len(sm_obs) >= 3 /\ sm_i < Len(sm_obs))
        => Cardinality(weighted(sm_obs, sm_left, sm_right, sm_i)) >= 3

\* C27: for every fitted index i of a list of l >= 3 observations the
\* window [left, right] has min(31, l) points, lies inside the list and
\* contains i, and right - i - 1 and i + 1 - left, evaluated to advance the
\* window, are not below zero, the last index included.
C27_WindowInBounds ==
    (sm_pc = "fit" /\ sm_i < Len(sm_obs))
        => /\ sm_right - sm_left + 1 = MinOf(Len(sm_obs), REGION_SIZE)
           /\ 0 <= sm_left
           /\ sm_right <= Len(sm_obs) - 1
           /\ sm_left <= sm_i
           /\ sm_i <= sm_right
           /\ sm_right - sm_i - 1 >= 0
           /\ sm_i + 1 - sm_left >= 0

(***************************************************************************)
(* lb_predict_cn: contig_hash_from_file (lb_predict_cn/src/contig.rs) and  *)
(* get_next_line (utils/src/lib.rs).  A line is the sequence of its        *)
(* characters, without the line end that trim removes with the rest of     *)
(* the white space.                                                        *)
(***************************************************************************)
MaxCtgLines == 2       \* a contig file has 0..MaxCtgLines lines

MaxCtgLineLen == 3     \* a line has 0..MaxCtgLineLen characters

CtgChars == {"a", "1", "0", " ", "\t"}

CtgLinesOfLen(n) == [1..n -> CtgChars]

CtgLineTexts == UNION {CtgLinesOfLen(n) : n \in 0..MaxCtgLineLen}

CtgFiles == UNION {[1..n -> CtgLineTexts] : n \in 0..MaxCtgLines}

IsWhite(c) == c \in {" ", "\t"}

\* str::trim: leading and trailing white space removed
RECURSIVE trim_start(_)
trim_start(s) ==
    IF s # <<>> /\ IsWhite(Head(s)) THEN trim_start(Tail(s)) ELSE s

RECURSIVE trim_end(_)
trim_end(s) ==
    IF s # <<>> /\ IsWhite(s[Len(s)]) THEN trim_end(SubSeq(s, 1, Len(s) - 1)) ELSE s

trim(s) == trim_end(trim_start(s))

\* str::split('\t'): the pieces between the tabs; one piece, the empty
\* string, for the empty string
RECURSIVE split_tab(_)
split_tab(s) ==
    IF \E k \in 1..Len(s) : s[k] = "\t"
        THEN LET k == CHOOSE k \in 1..Len(s) :
                          s[k] = "\t" /\ \A j \in 1..(k - 1) : s[j] # "\t"
             IN <<SubSeq(s, 1, k - 1)>> \o split_tab(SubSeq(s, k + 1, Len(s)))
        ELSE <<s>>

\* get_next_line on a line that was read: buf.trim().split('\t').collect()
get_next_line(text) == split_tab(trim(text))

\* parse_bool: [err, flag]; the words true, yes, false and no are longer
\* than a line of the model
parse_bool(s) ==
    IF s = <<"1">> THEN [err |-> FALSE, flag |-> TRUE]
    ELSE IF s = <<"0">> THEN [err |-> FALSE, flag |-> FALSE]
    ELSE [err |-> TRUE, flag |-> FALSE]

\* the flag of a line: fields.get(1), parse_bool
line_flag(fields) ==
    IF Len(fields) >= 2 THEN parse_bool(fields[2]) ELSE [err |-> FALSE, flag |-> TRUE]

\* Contig::new(name, flag).add_to_hash: HashMap::insert replaces the entry
\* of the name
add_to_hash(hash, name, flag) ==
    {e \in hash : e.name # name} \cup {[name |-> name, flag |-> flag]}

ContigFileInit ==
    /\ EarlyIdle
    /\ LaterIdleExcept("ctgfile")
    /\ ch_file \in CtgFiles
    /\ ch_line = 0
    /\ ch_hash = {}
    /\ ch_pc = "read"

ch_frame == UNCHANGED early_vars /\ LaterFrame("ctgfile")

\* lines 71-89, one turn of the loop: a line, its fields, the contig
ContigFileLine ==
    /\ ch_pc = "read"
    /\ ch_line < Len(ch_file)
    /\ \E fields \in {get_next_line(ch_file[ch_line + 1])} :
          /\ ~(fields # <<>> /\ line_flag(fields).err)
          /\ ch_hash' = IF fields # <<>>
                           THEN add_to_hash(ch_hash, fields[1], line_flag(fields).flag)
                           ELSE ch_hash
    /\ ch_line' = ch_line + 1
    /\ UNCHANGED <<ch_file, ch_pc>>
    /\ ch_frame

\* lines 83-84: parse_bool fails and the error is returned
ContigFileBadFlag ==
    /\ ch_pc = "read"
    /\ ch_line < Len(ch_file)
    /\ \E fields \in {get_next_line(ch_file[ch_line + 1])} :
          fields # <<>> /\ line_flag(fields).err
    /\ ch_line' = ch_line + 1
    /\ ch_pc' = "error"
    /\ UNCHANGED <<ch_file, ch_hash>>
    /\ ch_frame

\* lines 71, 92-97: end of file, Ok(ctg_hash)
ContigFileEof ==
    /\ ch_pc = "read"
    /\ ch_line = Len(ch_file)
    /\ ch_pc' = "done"
    /\ UNCHANGED <<ch_file, ch_line, ch_hash>>
    /\ ch_frame

ContigFileNext ==
    \/ ContigFileLine
    \/ ContigFileBadFlag
    \/ ContigFileEof

ContigFileSpec == ContigFileInit /\ [][ContigFileNext]_vars

\* a line with white space only
IsBlank(text) == \A k \in 1..Len(text) : IsWhite(text[k])

\* the name of a line that is not blank: its characters from the first one
\* that is not white space up to the next tab or the end of the line
NameOf(text) == split_tab(trim_start(text))[1]

\* C28: a blank line of the contig list file adds no contig: the number of
\* contigs returned is the number of distinct names on the lines that are
\* not blank, and no contig has the empty name.
C28_BlankLinesSkipped ==
    ch_pc = "done"
        => /\ Cardinality(ch_hash)
                = Cardinality({NameOf(ch_file[k]) :
                                  k \in {j \in 1..Len(ch_file) : ~IsBlank(ch_file[j])}})
           /\ \A e \in ch_hash : e.name # <<>>

(***************************************************************************)
(* Scheduler: the tracker and the channels, properties of Spec.            *)
(***************************************************************************)
\* NormalizeSample jobs sent whose NormalizedCounts the controller has not
\* received: those in a task's inbox and those answered in the controller's
\* inbox.
NormsInFlight ==
    Cardinality({w \in Tasks :
                    \E k \in 1..Len(inbox[w]) : inbox[w][k].type = "NormalizeSample"})
    + Cardinality({k \in 1..Len(ctrl_q) :
                      ctrl_q[k].prev_results.type = "NormalizedCounts"})

\* C29: in every reachable state of an error-free run n_read_jobs_pending
\* is the number of ReadData jobs sent whose RawCounts has not been
\* received and n_normalize_jobs_pending the number of NormalizeSample jobs
\* sent whose NormalizedCounts has not been received; the two assertions of
\* update_at_recv never fail.
C29_TrackerCountsInFlight ==
    ErrorFree
        => /\ track.r = ReadsInFlight
           /\ track.n = NormsInFlight
           /\ ctrl_pc # "panicked"
           /\ \A k \in 1..Len(ctrl_q) : recv_assert_ok(track, ctrl_q[k])

\* a NormalizedCounts result is about to be received while a read job is
\* still out: both counters are 1
C29_Witness ==
    /\ ErrorFree
    /\ ctrl_pc = "run"
    /\ ctrl_q # <<>>
    /\ Head(ctrl_q).prev_results.type = "NormalizedCounts"
    /\ track.n = 1
    /\ track.r = 1

\* the requests of worker w in the controller's inbox
RequestsOf(w) == {k \in 1..Len(ctrl_q) : ctrl_q[k].task_idx = w}

\* C30: a worker has at most one request outstanding, counting the request
\* in the controller's inbox and the reply it has not yet taken; the
\* controller's inbox holds at most n_tasks messages, a worker's inbox at
\* most one, and neither the controller's send nor a worker's send finds
\* its channel full.
C30_OneRequestOutstanding ==
    /\ \A w \in Tasks : Cardinality(RequestsOf(w)) + Len(inbox[w]) <= 1
    /\ Len(ctrl_q) <= cfg.n_tasks
    /\ \A w \in Tasks : Len(inbox[w]) <= 1
    /\ (ctrl_pc = "run" /\ ctrl_q # <<>>) => Len(inbox[Head(ctrl_q).task_idx]) < InboxCap
    /\ \A w \in Tasks :
          (pc[w] = "start" \/ (pc[w] = "run" /\ inbox[w] # <<>>))
              => Len(ctrl_q) < cfg.n_tasks * CtrlCapFactor

\* every worker has a request in the controller's inbox, the first one the
\* result of a job it was sent before
C30_Witness ==
    /\ cfg.n_tasks = MaxTasks
    /\ ctrl_pc = "run"
    /\ Len(ctrl_q) = MaxTasks
    /\ Head(ctrl_q).prev_results.type = "RawCounts"
    /\ \A w \in Tasks : inbox[w] = <<>> /\ pc[w] = "run"

====
